---- MODULE Spec2Model ----
(***************************************************************************)
(* A model of pypress: the merge controller (row partitioning, worker      *)
(* start, the collector loop and the final outcome), the merge worker, the *)
(* per-worker resource cache, and the imposition controller and worker.    *)
(*                                                                         *)
(* The specifications share the variables:                                 *)
(*   Spec        a whole run of MergeController.merge or                   *)
(*               ImpositionController.impose with its worker threads;      *)
(*   FairSpec    the runs that reach the collector loop, with threads that *)
(*               keep running;                                             *)
(*   SpecSplit   MergeController._split_dataframe_by_pages applied to a    *)
(*               wider range of row sequences and limits;                  *)
(*   SpecCache   one MergeCache driven by arbitrary sequences of its       *)
(*               operations against a small file system;                   *)
(*   SpecFields  replace_merge_fields applied to texts and rows;           *)
(*   SpecSheets  the sheets ImpositionThread.run composes;                 *)
(*   SpecLoad    MergeController._load_data applied to the rows of a data  *)
(*               file;                                                     *)
(*   SpecResolve MergeController._set_template_page_count_column applied   *)
(*               to rows with their template paths;                        *)
(*   SpecBlocks  MergeThread.run of the thread of a one-chunk merge that   *)
(*               no interrupt reaches, its rows composed block by block.   *)
(***************************************************************************)
EXTENDS Integers, Sequences, FiniteSets, TLC

VARIABLES
    kind,               \* entry point: "merge", "impose", "split", "cache", "fields", "sheets",
                        \* "load", "resolve", "blocks"
    \* ---- controller (MergeController / ImpositionController)
    df,                 \* rows after loading: <<[ord, pages]>>, pages = -1: template not openable
    file_page_limit,    \* MergeOptions.file_page_limit
    variable_column,    \* TRUE iff MergeOptions.variable_column is set
    input_files,        \* number of input files of an imposition run
    df_chunks,          \* result of _split_dataframe_by_pages
    ctrl,               \* position of merge() / impose()
    threads,            \* self.threads: ids of the started worker threads
    message_queue,      \* self.message_queue (FIFO)
    stop_event,         \* self.stop_event
    cancelled,          \* local variable cancelled of merge() / impose()
    aliveAtInterrupt,   \* TRUE iff some KeyboardInterrupt was caught while a worker was alive
    outcomes,           \* results displayed by the view, in order
    total,              \* view: the total of the progress bar (-1 until it is set)
    progress,           \* view: sum of the advances of the progress bar
    console,            \* view: the messages logged by process_message, in order
    delivered,          \* history: per publisher, the messages get() handed to the loop, in order
    \* ---- worker threads (MergeThread / ImpositionThread), by thread id + 1
    pc,                 \* position of run()
    idx,                \* number of rows of the chunk completed
    exc,                \* the failure the worker raised ("none" if none)
    released,           \* TRUE iff the worker called cache.clear_cache()
    ended,              \* TRUE iff the worker called p.end_document()
    \* ---- one MergeCache and its engine (SpecCache)
    cached_documents,   \* _cached_documents: <<[path, doc]>> in insertion order
    cached_images,      \* _cached_images: <<[path, handle]>> in insertion order
    cached_graphics,    \* _cached_graphics: <<[path, handle]>> in insertion order
    handles,            \* engine: every handle ever created, [type, path, owner], by id
    closed,             \* engine: the handle ids closed, in closing order
    returned,           \* the <<path, Document handle>> pairs get_or_cache_document returned
    lastOp,             \* the last cache operation performed
    nops,               \* number of cache operations performed
    \* ---- the pure functions on their own (SpecFields, SpecSheets)
    text,               \* replace_merge_fields: the block text, a sequence of characters
    row,                \* replace_merge_fields: the row, <<[key, val]>>
    result,             \* what replace_merge_fields returned or raised
    options,            \* ImpositionThreadOptions and the measures of the input document
    sheets,             \* the fit_page calls of ImpositionThread.run, per output sheet
    \* ---- what a worker thread owns, by thread id + 1
    resources,          \* MergeThread: output_path, and the paths in its cache's _cached_documents
    resulting_page_count, \* ImpositionThread.run: the number of sheets of its output
    sheet_no,           \* ImpositionThread.run: the sheets composed so far
    \* ---- _load_data on its own (SpecLoad)
    csv,                \* the rows of the data file: <<[ord, cells]>>
    generate_proof,     \* MergeOptions.generate_proof
    \* ---- _set_template_page_count_column on its own (SpecResolve)
    seen_documents_page_count, \* the memo: <<[path, val]>> in insertion order
    open_calls,         \* the paths passed to open_document, in order
    page_counts,        \* the column __pypress_template_page_count, as far as computed
    \* ---- the blocks of the template (SpecBlocks)
    blocks,             \* the block types of the template's page, in order
    block_no,           \* per worker: the blocks of the current page gone through
    composed            \* per worker: the blocks gone through, <<[row, block, how]>>

ctrlVars == <<df, file_page_limit, variable_column, input_files, df_chunks, ctrl,
              threads, message_queue, stop_event, cancelled, aliveAtInterrupt,
              outcomes, total, progress, console, delivered>>
workerVars == <<pc, idx, exc, released, ended>>
cacheVars == <<cached_documents, cached_images, cached_graphics, handles, closed,
               returned, lastOp, nops>>
pureVars == <<text, row, result, options, sheets>>
ownVars == <<resources, resulting_page_count, sheet_no>>
loadVars == <<csv, generate_proof>>
resolveVars == <<seen_documents_page_count, open_calls, page_counts>>
blockVars == <<blocks, block_no, composed>>
moreVars == <<ownVars, loadVars, resolveVars, blockVars>>
vars == <<kind, ctrlVars, workerVars, cacheVars, pureVars, moreVars>>

-----------------------------------------------------------------------------
(* Bounds of the model. *)

MaxRows == 2            \* rows of a run
MaxPages == 2           \* template page count of a row in a run
RunLimit == 2           \* file_page_limit of a run
MaxFiles == 2           \* input files of an imposition run
MaxJobPages == 4        \* pages a run composes: the sum of its rows' page counts
CpuCount == 1           \* multiprocessing.cpu_count() of the machine of a run
SplitMaxRows == 4       \* rows given to the partitioner alone
SplitMaxPages == 3      \* page counts given to the partitioner alone
SplitMaxLimit == 4      \* limits given to the partitioner alone
MaxOps == 4             \* operations performed on the cache
MaxPageNo == 2          \* target page numbers of pdf blocks
MaxTextLen == 4         \* characters of a block text
MaxGrid == 2            \* rows, and columns, of an imposition
MaxInputPages == 5      \* pages of the input document of an imposition
MaxCsvRows == 4         \* rows of a data file given to the loader alone
CsvCols == 2            \* columns of that data file
MaxResolveRows == 3     \* rows given to the template resolution alone
MaxSheets == 2          \* sheets of the output of an imposition worker in a run
MaxBlockRows == 2       \* rows of a run that is composed block by block
MaxBlocks == 2          \* blocks of the template of such a run

-----------------------------------------------------------------------------
(* Rows and the partitioner. *)

Range(s) == {s[k] : k \in 1..Len(s)}

\* The rows of a dataframe whose column __pypress_template_page_count is pages.
MkDf(pages) == [k \in 1..Len(pages) |-> [ord |-> k, pages |-> pages[k]]]

SeqsUpTo(S, n) == UNION {[1..m -> S] : m \in 0..n}

RECURSIVE SumPages(_)
SumPages(rows) ==
    IF rows = <<>> THEN 0 ELSE rows[1].pages + SumPages(Tail(rows))

RECURSIVE Flatten(_)
Flatten(chunks) ==
    IF chunks = <<>> THEN <<>> ELSE chunks[1] \o Flatten(Tail(chunks))

\* df[start_idx : i + 1], with 0-based start_idx and i.
ChunkSliceExclusive(rows, start_idx, i) == SubSeq(rows, start_idx + 1, i)

ChunkSlice(rows, start_idx, i) == SubSeq(rows, start_idx + 1, i + 1)

\* A partitioner that cuts only once the running sum exceeds the limit.
RECURSIVE SplitLoopStrict(_, _, _, _, _, _)
SplitLoopStrict(rows, limit, i, start_idx, cumulative_pages, chunks) ==
    IF i >= Len(rows)
    THEN IF start_idx < Len(rows)
         THEN Append(chunks, SubSeq(rows, start_idx + 1, Len(rows)))
         ELSE chunks
    ELSE LET cum == cumulative_pages + rows[i + 1].pages
         IN  IF cum > limit
             THEN SplitLoopStrict(rows, limit, i + 1, i + 1, 0,
                                  Append(chunks, ChunkSlice(rows, start_idx, i)))
             ELSE SplitLoopStrict(rows, limit, i + 1, start_idx, cum, chunks)

\* The for loop of _split_dataframe_by_pages from 0-based index i on, then the
\* trailing chunk.
RECURSIVE SplitLoop(_, _, _, _, _, _)
SplitLoop(rows, limit, i, start_idx, cumulative_pages, chunks) ==
    IF i >= Len(rows)
    THEN IF start_idx < Len(rows)
         THEN Append(chunks, SubSeq(rows, start_idx + 1, Len(rows)))
         ELSE chunks
    ELSE LET cum == cumulative_pages + rows[i + 1].pages
         IN  IF cum >= limit
             THEN SplitLoop(rows, limit, i + 1, i + 1, 0,
                            Append(chunks, ChunkSlice(rows, start_idx, i)))
             ELSE SplitLoop(rows, limit, i + 1, start_idx, cum, chunks)

\* A partitioner that appends the trailing chunk without the test
\* start_idx < df.height: an empty chunk follows a cut at the last row, and an
\* empty row set gives one empty chunk.
SplitTrailingUnconditional(rows, limit) ==
    LET chunks == SplitLoop(rows, limit, 0, 0, 0, <<>>)
    IN  IF chunks = <<>> \/ SumPages(chunks[Len(chunks)]) >= limit
        THEN Append(chunks, <<>>)
        ELSE chunks

SplitDataframeByPages(rows, limit) == SplitLoop(rows, limit, 0, 0, 0, <<>>)

-----------------------------------------------------------------------------
(* Messages on the queue: (MergeMessageType, payload), tagged with the     *)
(* publishing thread (0: the controller).                                  *)

Msg(type, from, body) == [type |-> type, from |-> from, body |-> body]

\* A queue that hands out the newest message first.
PutFront(q, m) == <<m>> \o q

\* queue.Queue.put: first in, first out.
Put(q, m) == Append(q, m)

ShuttingDown(w) == Msg("PROGRESS_WARNING", w, "Shutting down")
WroteFile(w) == Msg("PROGRESS_MESSAGE", w, "Wrote file")
ProgressError(w) == Msg("PROGRESS_ERROR", w, exc[w])
\* An update that counts the row, not its pages.
ProgressUpdatePerRow(w, n) == Msg("PROGRESS_UPDATE", w, 1)

ProgressUpdate(w, n) == Msg("PROGRESS_UPDATE", w, n)
\* The warning of merge_image_block and merge_graphics_block, and that of
\* merge_pdf_block.
PlacementWarning(w, type) ==
    Msg("PROGRESS_WARNING", w,
        IF type = "pdf" THEN "PDF could not be placed" ELSE "Image could not be placed")
DroppedRows == Msg("PROGRESS_WARNING", 0, "Dropped empty row(s)")

Workers == DOMAIN pc

\* The thread ids a run can have, and the publishers of messages.
WorkerIds == 1..(IF MaxRows >= MaxFiles THEN MaxRows ELSE MaxFiles)
Senders == {0} \cup WorkerIds

\* threading.Thread.is_alive(): started, and run() has neither returned nor raised.
AliveStates == {"begin", "check", "row", "except", "rethrow", "compose"}
IsAlive(w) == pc[w] \in AliveStates
AnyAlive == \E w \in threads : IsAlive(w)

\* A loop that looks at the threads only.
LoopConditionAliveOnly == AnyAlive

\* The condition of the collector's while loop.
LoopCondition == AnyAlive \/ message_queue # <<>>

PureIdle ==
    /\ text = <<>>
    /\ row = <<>>
    /\ result = <<>>
    /\ options = <<>>
    /\ sheets = <<>>

OwnIdle ==
    /\ resources = <<>>
    /\ resulting_page_count = <<>>
    /\ sheet_no = <<>>

LoadIdle ==
    /\ csv = <<>>
    /\ generate_proof = FALSE

ResolveIdle ==
    /\ seen_documents_page_count = <<>>
    /\ open_calls = <<>>
    /\ page_counts = <<>>

BlocksIdle ==
    /\ blocks = <<>>
    /\ block_no = <<>>
    /\ composed = <<>>

MoreIdle == OwnIdle /\ LoadIdle /\ ResolveIdle /\ BlocksIdle

CacheIdle ==
    /\ cached_documents = <<>>
    /\ cached_images = <<>>
    /\ cached_graphics = <<>>
    /\ handles = <<>>
    /\ closed = <<>>
    /\ returned = {}
    /\ lastOp = "none"
    /\ nops = 0

WorkersIdle ==
    /\ pc = <<>>
    /\ idx = <<>>
    /\ exc = <<>>
    /\ released = <<>>
    /\ ended = <<>>

CtrlStart ==
    /\ df_chunks = <<>>
    /\ threads = {}
    /\ message_queue = <<>>
    /\ stop_event = FALSE
    /\ cancelled = FALSE
    /\ aliveAtInterrupt = FALSE
    /\ outcomes = <<>>
    /\ total = -1
    /\ progress = 0
    /\ console = <<>>
    /\ delivered = [s \in Senders |-> <<>>]

RunPages == {-1} \cup (1..MaxPages)

\* The largest value of polars' Int8.
Int8Max == 127

\* A fixed template gives every row the same page count, an Int32 literal that
\* may lie beyond Int8. The per-row counts of a variable-column run are
\* produced as Int8 and are drawn within it.
\* The job is bounded by the pages it composes: the counts a thread can
\* compose, those within Int8, sum to MaxJobPages at most.
RunDataframes(variable) ==
    {MkDf(p) : p \in {q \in SeqsUpTo(RunPages \cup {Int8Max + 1}, MaxRows) :
                        /\ IF variable THEN \A k \in 1..Len(q) : q[k] <= Int8Max
                           ELSE \A a, b \in Range(q) : a = b
                        /\ SumPages(MkDf(SelectSeq(q, LAMBDA n : n \in 1..Int8Max)))
                               <= MaxJobPages}}

InitMerge ==
    /\ kind = "merge"
    /\ variable_column \in BOOLEAN
    /\ df \in RunDataframes(variable_column)
    /\ file_page_limit = RunLimit
    /\ input_files = 0
    /\ ctrl = "load"
    /\ CtrlStart /\ WorkersIdle /\ CacheIdle /\ MoreIdle /\ PureIdle

InitImpose ==
    /\ kind = "impose"
    /\ variable_column = FALSE
    /\ df = <<>>
    /\ file_page_limit = 0
    /\ input_files \in 1..MaxFiles
    /\ ctrl = "start"
    /\ CtrlStart /\ CacheIdle /\ PureIdle
    /\ LoadIdle /\ ResolveIdle /\ BlocksIdle
    /\ resources = <<>>
    /\ resulting_page_count \in [1..input_files -> 1..MaxSheets]
    /\ sheet_no = [w \in 1..input_files |-> 0]
    /\ pc = [w \in 1..input_files |-> "unstarted"]
    /\ idx = [w \in 1..input_files |-> 0]
    /\ exc = [w \in 1..input_files |-> "none"]
    /\ released = [w \in 1..input_files |-> FALSE]
    /\ ended = [w \in 1..input_files |-> FALSE]

Init == InitMerge \/ InitImpose

\* The MergeThreads: with a row composed in one step, or block by block.
MergeRun == kind \in {"merge", "blocks"}

-----------------------------------------------------------------------------
(* What a MergeThread is constructed with and creates for itself. *)

\* The worker w of the model is the thread of thread_id w - 1, the one given
\* df_chunks[w].
ThreadId(w) == w - 1

\* output_path.parent / f"{output_path.stem}_{thread_id + 1}.pdf"
OutputPath(w) == <<"output", ThreadId(w) + 1>>

\* One cache, and the engine session behind it, that all threads use.
CacheOfFirst(w) == 1

\* __init__ creates the thread's own PDFlib session and, on it, its own
\* MergeCache: the cache of the thread w.
CacheOf(w) == w

\* A thread that is not constructed yet.
NoResources == [output_path |-> <<>>, documents |-> {}]

\* The column __pypress_template_path of a row. The files of a template
\* directory are told apart by their page counts.
TemplatePath(r) ==
    IF variable_column THEN <<"templates", r.pages>> ELSE <<"template">>

\* _cached_documents[path] = doc of the cache c; and _cached_documents.clear().
Cached(c, path) == [resources EXCEPT ![c].documents = @ \cup {path}]
Cleared(c) == [resources EXCEPT ![c].documents = {}]

-----------------------------------------------------------------------------
(* MergeController.merge, up to the start of the workers. *)

\* _load_data: the warning for dropped rows, if any; df is what it returns.
LoadData ==
    /\ kind = "merge" /\ ctrl = "load"
    /\ \E dropped \in BOOLEAN :
          message_queue' = IF dropped THEN Put(message_queue, DroppedRows)
                           ELSE message_queue
    /\ ctrl' = "resolve"
    /\ UNCHANGED <<kind, pureVars, moreVars, df, file_page_limit, variable_column, input_files, df_chunks,
                   threads, stop_event, cancelled, aliveAtInterrupt, outcomes, total,
                   progress, console, delivered, workerVars, cacheVars>>

\* _set_template_page_count_column raises TemplateNotFound only on the
\* variable-column path (bad_rows is computed after the early return).
TemplateNotFound == variable_column /\ \E k \in 1..Len(df) : df[k].pages < 0

ResolveFail ==
    /\ kind = "merge" /\ ctrl = "resolve"
    /\ TemplateNotFound
    /\ outcomes' = Append(outcomes, "error")
    /\ ctrl' = "done"
    /\ UNCHANGED <<kind, pureVars, moreVars, df, file_page_limit, variable_column, input_files, df_chunks,
                   threads, message_queue, stop_event, cancelled, aliveAtInterrupt,
                   total, progress, console, delivered, workerVars, cacheVars>>

\* _split_dataframe_by_pages, and one worker object per chunk.
SplitAndSubmit ==
    /\ kind = "merge" /\ ctrl = "resolve"
    /\ ~TemplateNotFound
    /\ df_chunks' = SplitDataframeByPages(df, file_page_limit)
    /\ pc' = [w \in 1..Len(df_chunks') |-> "unstarted"]
    /\ idx' = [w \in 1..Len(df_chunks') |-> 0]
    /\ exc' = [w \in 1..Len(df_chunks') |-> "none"]
    /\ released' = [w \in 1..Len(df_chunks') |-> FALSE]
    /\ ended' = [w \in 1..Len(df_chunks') |-> FALSE]
    /\ resources' = [w \in 1..Len(df_chunks') |-> NoResources]
    /\ ctrl' = "start"
    /\ UNCHANGED <<kind, pureVars, resulting_page_count, sheet_no, loadVars, resolveVars, blockVars, df, file_page_limit, variable_column, input_files, threads,
                   message_queue, stop_event, cancelled, aliveAtInterrupt, outcomes,
                   total, progress, console, delivered, cacheVars>>

\* The tasks the executor is running: it has max_workers = cpu_count threads.
PoolBusy == {v \in Workers : pc[v] = "starting"}

\* A free thread of the executor takes the next submitted task, in the order
\* of submission.
ExecutorRun(w) ==
    /\ ctrl = "start"
    /\ w \in Workers /\ pc[w] = "unstarted"
    /\ \A v \in Workers : v < w => pc[v] # "unstarted"
    /\ Cardinality(PoolBusy) < CpuCount
    /\ pc' = [pc EXCEPT ![w] = "starting"]
    /\ UNCHANGED <<kind, pureVars, moreVars, ctrlVars, idx, exc, released, ended, cacheVars>>

\* The task _start_merge_thread / _start_imposition_thread: thread.start(),
\* threads.append(thread), and the task is over.
StartThread(w) ==
    /\ ctrl = "start"
    /\ w \in Workers \ threads
    /\ pc[w] = "starting"
    /\ threads' = threads \cup {w}
    /\ pc' = [pc EXCEPT ![w] = "begin"]
    /\ resources' = IF kind = "impose" THEN resources
                     ELSE [resources EXCEPT ![w] = [output_path |-> OutputPath(w),
                                                   documents |-> {}]]
    /\ UNCHANGED <<kind, pureVars, resulting_page_count, sheet_no, loadVars, resolveVars, blockVars, df, file_page_limit, variable_column, input_files, df_chunks,
                   ctrl, message_queue, stop_event, cancelled, aliveAtInterrupt,
                   outcomes, total, progress, console, delivered, idx, exc, released, ended,
                   cacheVars>>

ProgressTotal == IF kind = "merge" THEN SumPages(df) ELSE input_files

\* The executor has run every submitted start: set_progress_total_and_start.
StartCollecting ==
    /\ ctrl = "start"
    /\ threads = Workers
    /\ total' = ProgressTotal
    /\ ctrl' = "collect"
    /\ UNCHANGED <<kind, pureVars, moreVars, df, file_page_limit, variable_column, input_files, df_chunks,
                   threads, message_queue, stop_event, cancelled, aliveAtInterrupt,
                   outcomes, progress, console, delivered, workerVars, cacheVars>>

-----------------------------------------------------------------------------
(* MergeThread. *)

Chunk(w) == df_chunks[w]

\* throw_error(), in a step that changes nothing else of the controller's state
\* but the queue.
ThrowErrorSkipped == stop_event' = stop_event

ThrowError == stop_event' = TRUE

\* The ways merge_document can fail, by the text of the exception:
\* get_or_cache_document raises or a fill call returns < 0 (the engine's error
\* text, "engine"), replace_merge_fields raises ("field"), a block has an
\* unknown type ("unsupported"). A failed begin_document is "begin".
RowFaults == {"engine", "field", "unsupported"}

\* Those that call throw_error() before raising; the unsupported block type
\* raises at once.
FlagsBeforeRaise(fault) == fault # "unsupported"

\* cast(pl.Int8) is strict: a page count of the chunk beyond Int8 makes it
\* raise polars' ComputeError.
CastFails(w) == \E k \in 1..Len(Chunk(w)) : Chunk(w)[k].pages > Int8Max

\* merge_loop up to the for loop: the cast of the page counts, whose error
\* run() does not catch, then begin_document.
MergeBegin(w) ==
    /\ MergeRun /\ w \in Workers /\ pc[w] = "begin"
    /\ IF CastFails(w)
       THEN /\ pc' = [pc EXCEPT ![w] = "crashed"]
            /\ exc' = [exc EXCEPT ![w] = "ComputeError"]
            /\ UNCHANGED stop_event
       ELSE \/ /\ pc' = [pc EXCEPT ![w] = "check"]
               /\ UNCHANGED <<exc, stop_event>>
            \/ /\ ThrowError
               /\ exc' = [exc EXCEPT ![w] = "begin"]
               /\ pc' = [pc EXCEPT ![w] = "except"]
    /\ UNCHANGED <<kind, pureVars, moreVars, df, file_page_limit, variable_column, input_files, df_chunks,
                   ctrl, threads, message_queue, cancelled, aliveAtInterrupt, outcomes,
                   total, progress, console, delivered, idx, released, ended, cacheVars>>

\* A sibling that, told to stop, raises instead of returning.
MergeCheckRaises(w) ==
    /\ kind = "merge" /\ w \in Workers /\ pc[w] = "check"
    /\ idx[w] < Len(Chunk(w))
    /\ IF stop_event
       THEN /\ exc' = [exc EXCEPT ![w] = "stopped"]
            /\ pc' = [pc EXCEPT ![w] = "except"]
       ELSE /\ pc' = [pc EXCEPT ![w] = "row"]
            /\ exc' = exc
    /\ UNCHANGED <<kind, pureVars, moreVars, df, file_page_limit, variable_column, input_files, df_chunks,
                   ctrl, threads, message_queue, stop_event, cancelled, aliveAtInterrupt,
                   outcomes, total, progress, console, delivered, idx, released, ended, cacheVars>>

\* A worker that returns on the stop flag without publishing anything.
MergeCheckSilent(w) ==
    /\ kind = "merge" /\ w \in Workers /\ pc[w] = "check"
    /\ idx[w] < Len(Chunk(w))
    /\ pc' = [pc EXCEPT ![w] = IF stop_event THEN "shutdown" ELSE "row"]
    /\ UNCHANGED <<kind, pureVars, moreVars, df, file_page_limit, variable_column, input_files, df_chunks,
                   ctrl, threads, message_queue, stop_event, cancelled, aliveAtInterrupt,
                   outcomes, total, progress, console, delivered, idx, exc, released, ended,
                   cacheVars>>

\* A worker that does not look at the stop flag.
MergeCheckIgnores(w) ==
    /\ MergeRun /\ w \in Workers /\ pc[w] = "check"
    /\ idx[w] < Len(Chunk(w))
    /\ pc' = [pc EXCEPT ![w] = "row"]
    /\ UNCHANGED <<kind, pureVars, moreVars, df, file_page_limit, variable_column, input_files, df_chunks,
                   ctrl, threads, message_queue, stop_event, cancelled, aliveAtInterrupt,
                   outcomes, total, progress, console, delivered, idx, exc, released, ended,
                   cacheVars>>

\* The head of the for loop with a row left: the check of the stop flag.
MergeCheck(w) ==
    /\ MergeRun /\ w \in Workers /\ pc[w] = "check"
    /\ idx[w] < Len(Chunk(w))
    /\ IF stop_event
       THEN /\ message_queue' = Put(message_queue, ShuttingDown(w))
            /\ pc' = [pc EXCEPT ![w] = "shutdown"]
       ELSE /\ pc' = [pc EXCEPT ![w] = "row"]
            /\ message_queue' = message_queue
    /\ UNCHANGED <<kind, pureVars, moreVars, df, file_page_limit, variable_column, input_files, df_chunks,
                   ctrl, threads, stop_event, cancelled, aliveAtInterrupt, outcomes,
                   total, progress, console, delivered, idx, exc, released, ended, cacheVars>>

\* merge_document(row) returns: every page of the row composed, then the
\* row's PROGRESS_UPDATE.
MergeRow(w) ==
    /\ kind = "merge" /\ w \in Workers /\ pc[w] = "row"
    /\ Chunk(w)[idx[w] + 1].pages >= 1
    /\ message_queue' = Put(message_queue, ProgressUpdate(w, Chunk(w)[idx[w] + 1].pages))
    /\ idx' = [idx EXCEPT ![w] = @ + 1]
    /\ resources' = Cached(CacheOf(w), TemplatePath(Chunk(w)[idx[w] + 1]))
    /\ pc' = [pc EXCEPT ![w] = "check"]
    /\ UNCHANGED <<kind, pureVars, resulting_page_count, sheet_no, loadVars, resolveVars, blockVars, df, file_page_limit, variable_column, input_files, df_chunks,
                   ctrl, threads, stop_event, cancelled, aliveAtInterrupt, outcomes,
                   total, progress, console, delivered, exc, released, ended, cacheVars>>

\* merge_document(row) raises MergeThreadException. A template that could not
\* be opened at resolution cannot be opened by the worker either; a field or
\* block fault comes after get_or_cache_document has loaded the template, an
\* engine fault comes out of the loading or out of a fill call after it.
MergeRowFail(w) ==
    /\ kind = "merge" /\ w \in Workers /\ pc[w] = "row"
    /\ \E fault \in RowFaults, loaded \in BOOLEAN :
          /\ Chunk(w)[idx[w] + 1].pages < 1 => fault = "engine" /\ ~loaded
          /\ fault # "engine" => loaded
          /\ resources' = IF loaded
                           THEN Cached(CacheOf(w), TemplatePath(Chunk(w)[idx[w] + 1]))
                           ELSE resources
          /\ exc' = [exc EXCEPT ![w] = fault]
          /\ IF FlagsBeforeRaise(fault) THEN ThrowError ELSE UNCHANGED stop_event
    /\ pc' = [pc EXCEPT ![w] = "except"]
    /\ UNCHANGED <<kind, pureVars, resulting_page_count, sheet_no, loadVars, resolveVars, blockVars, df, file_page_limit, variable_column, input_files, df_chunks,
                   ctrl, threads, message_queue, cancelled, aliveAtInterrupt, outcomes,
                   total, progress, console, delivered, idx, released, ended, cacheVars>>

\* The for loop is exhausted: clear_cache, end_document, 'Wrote file'.
MergeFinish(w) ==
    /\ MergeRun /\ w \in Workers /\ pc[w] = "check"
    /\ idx[w] = Len(Chunk(w))
    /\ released' = [released EXCEPT ![w] = TRUE]
    /\ resources' = Cleared(CacheOf(w))
    /\ ended' = [ended EXCEPT ![w] = TRUE]
    /\ message_queue' = Put(message_queue, WroteFile(w))
    /\ pc' = [pc EXCEPT ![w] = "done"]
    /\ UNCHANGED <<kind, pureVars, resulting_page_count, sheet_no, loadVars, resolveVars, blockVars, df, file_page_limit, variable_column, input_files, df_chunks,
                   ctrl, threads, stop_event, cancelled, aliveAtInterrupt, outcomes,
                   total, progress, console, delivered, idx, exc, cacheVars>>

\* A handler that sets the flag without telling the view.
RunExceptSilent(w) ==
    /\ MergeRun /\ w \in Workers /\ pc[w] = "except"
    /\ pc' = [pc EXCEPT ![w] = "rethrow"]
    /\ UNCHANGED <<kind, pureVars, moreVars, df, file_page_limit, variable_column, input_files, df_chunks,
                   ctrl, threads, message_queue, stop_event, cancelled, aliveAtInterrupt,
                   outcomes, total, progress, console, delivered, idx, exc, released, ended,
                   cacheVars>>

\* run(): except MergeThreadException: publish PROGRESS_ERROR ...
RunExcept(w) ==
    /\ MergeRun /\ w \in Workers /\ pc[w] = "except"
    /\ message_queue' = Put(message_queue, ProgressError(w))
    /\ pc' = [pc EXCEPT ![w] = "rethrow"]
    /\ UNCHANGED <<kind, pureVars, moreVars, df, file_page_limit, variable_column, input_files, df_chunks,
                   ctrl, threads, stop_event, cancelled, aliveAtInterrupt, outcomes,
                   total, progress, console, delivered, idx, exc, released, ended, cacheVars>>

\* ... then throw_error(), and the thread ends.
RunThrowError(w) ==
    /\ MergeRun /\ w \in Workers /\ pc[w] = "rethrow"
    /\ ThrowError
    /\ pc' = [pc EXCEPT ![w] = "failed"]
    /\ UNCHANGED <<kind, pureVars, moreVars, df, file_page_limit, variable_column, input_files, df_chunks,
                   ctrl, threads, message_queue, cancelled, aliveAtInterrupt, outcomes,
                   total, progress, console, delivered, idx, exc, released, ended, cacheVars>>

-----------------------------------------------------------------------------
(* merge_document, block by block. The template has one page; its blocks   *)
(* are given by their types, block.type.lower().                           *)

SupportedBlocks == {"text", "image", "pdf", "graphics"}

\* The blocks filled with a resource the cache resolves from the block text.
ResourceBlocks == {"image", "pdf", "graphics"}

BlockTypes == SupportedBlocks \cup {"other"}

\* What a fill_...block call of the engine returns: -1 on failure.
FillResults == {-1, 1}

\* A worker for which an unresolved resource counts as a failed fill.
BlockResultUnresolvedFails(block, resolved, fill) ==
    IF block \in ResourceBlocks /\ ~resolved THEN -1 ELSE fill

\* result of merge_block: what merge_text_block, merge_image_block,
\* merge_pdf_block or merge_graphics_block returns: 1 after the warning for a
\* resource the cache could not resolve, else what the fill call returned.
BlockResult(block, resolved, fill) ==
    IF block \in ResourceBlocks /\ ~resolved THEN 1 ELSE fill

\* A worker that does not look at the result.
FailsNever(block_result) == FALSE

\* if result < 0
Fails(block_result) == block_result < 0

\* merge_document up to the loop over the pages: get_or_cache_document returns
\* the template, loading it if it is not cached, or raises out of the loading;
\* then begin_page_ext.
MergeDocument(w) ==
    /\ kind = "blocks" /\ w \in Workers /\ pc[w] = "row"
    /\ LET path == TemplatePath(Chunk(w)[idx[w] + 1])
       IN  \/ /\ resources' = Cached(CacheOf(w), path)
              /\ block_no' = [block_no EXCEPT ![w] = 0]
              /\ pc' = [pc EXCEPT ![w] = "block"]
              /\ UNCHANGED <<exc, stop_event>>
           \/ /\ path \notin resources[CacheOf(w)].documents
              /\ ThrowError
              /\ exc' = [exc EXCEPT ![w] = "engine"]
              /\ pc' = [pc EXCEPT ![w] = "except"]
              /\ UNCHANGED <<resources, block_no>>
    /\ UNCHANGED <<kind, pureVars, resulting_page_count, sheet_no, loadVars, resolveVars,
                   blocks, composed, df, file_page_limit, variable_column, input_files,
                   df_chunks, ctrl, threads, message_queue, cancelled, aliveAtInterrupt,
                   outcomes, total, progress, console, delivered, idx, released, ended,
                   cacheVars>>

\* merge_block for the next block of the page: replace_merge_fields, which
\* raises for a field the row lacks; the dispatch on the type, which raises
\* for an unsupported one; the warning for an unresolved resource; and the
\* test of the result.
MergeBlock(w) ==
    /\ kind = "blocks" /\ w \in Workers /\ pc[w] = "block"
    /\ block_no[w] < Len(blocks)
    /\ \E field_found \in BOOLEAN, resolved \in BOOLEAN, fill \in FillResults :
          LET block == blocks[block_no[w] + 1]
              skipped == field_found /\ block \in ResourceBlocks /\ ~resolved
              block_result == BlockResult(block, resolved, fill)
              fault == IF ~field_found THEN "field"
                       ELSE IF block \notin SupportedBlocks THEN "unsupported"
                       ELSE "engine"
              raises == fault # "engine" \/ Fails(block_result)
              how == IF fault # "engine" THEN fault
                     ELSE IF skipped THEN "unfilled"
                     ELSE IF block_result < 0 THEN "failed"
                     ELSE "filled"
          IN  /\ composed' = [composed EXCEPT ![w] =
                                 Append(@, [row |-> idx[w] + 1,
                                            block |-> block_no[w] + 1, how |-> how])]
              /\ message_queue' = IF skipped
                                  THEN Put(message_queue, PlacementWarning(w, block))
                                  ELSE message_queue
              /\ IF raises
                 THEN /\ exc' = [exc EXCEPT ![w] = fault]
                      /\ pc' = [pc EXCEPT ![w] = "except"]
                      /\ IF FlagsBeforeRaise(fault) THEN ThrowError
                         ELSE UNCHANGED stop_event
                      /\ UNCHANGED block_no
                 ELSE /\ block_no' = [block_no EXCEPT ![w] = @ + 1]
                      /\ UNCHANGED <<pc, exc, stop_event>>
    /\ UNCHANGED <<kind, pureVars, ownVars, loadVars, resolveVars, blocks, df,
                   file_page_limit, variable_column, input_files, df_chunks, ctrl, threads,
                   cancelled, aliveAtInterrupt, outcomes, total, progress, console,
                   delivered, idx, released, ended, cacheVars>>

\* The blocks of the page are gone through: end_page_ext, merge_document
\* returns, and merge_loop puts the row's PROGRESS_UPDATE.
MergeRowEnd(w) ==
    /\ kind = "blocks" /\ w \in Workers /\ pc[w] = "block"
    /\ block_no[w] = Len(blocks)
    /\ message_queue' = Put(message_queue, ProgressUpdate(w, Chunk(w)[idx[w] + 1].pages))
    /\ idx' = [idx EXCEPT ![w] = @ + 1]
    /\ pc' = [pc EXCEPT ![w] = "check"]
    /\ UNCHANGED <<kind, pureVars, moreVars, df, file_page_limit, variable_column,
                   input_files, df_chunks, ctrl, threads, stop_event, cancelled,
                   aliveAtInterrupt, outcomes, total, progress, console, delivered, exc,
                   released, ended, cacheVars>>

-----------------------------------------------------------------------------
(* ImpositionThread. *)

\* run() up to the first open_document: it raises InvalidDocumentHandle for a
\* file the engine cannot open, and run() catches nothing.
ImposeOpen(w) ==
    /\ kind = "impose" /\ w \in Workers /\ pc[w] = "begin"
    /\ \/ /\ pc' = [pc EXCEPT ![w] = "compose"]
          /\ exc' = exc
       \/ /\ pc' = [pc EXCEPT ![w] = "crashed"]
          /\ exc' = [exc EXCEPT ![w] = "InvalidDocumentHandle"]
    /\ UNCHANGED <<kind, pureVars, moreVars, ctrlVars, idx, released, ended, cacheVars>>

\* A sheet that, once composed, is reported by a PROGRESS_UPDATE of its own.
ImposeSheetPublishing(w) ==
    /\ kind = "impose" /\ w \in Workers /\ pc[w] = "compose"
    /\ sheet_no[w] < resulting_page_count[w]
    /\ sheet_no' = [sheet_no EXCEPT ![w] = @ + 1]
    /\ message_queue' = Put(message_queue, ProgressUpdate(w, 1))
    /\ UNCHANGED <<kind, pureVars, resources, resulting_page_count, loadVars, resolveVars,
                   blockVars, df, file_page_limit, variable_column, input_files, df_chunks,
                   ctrl, threads, stop_event, cancelled, aliveAtInterrupt, outcomes,
                   total, progress, console, delivered, workerVars, cacheVars>>

\* One turn of the loop over range(resulting_page_count): a sheet is begun,
\* its pages are placed, and it is ended.
ImposeSheet(w) ==
    /\ kind = "impose" /\ w \in Workers /\ pc[w] = "compose"
    /\ sheet_no[w] < resulting_page_count[w]
    /\ sheet_no' = [sheet_no EXCEPT ![w] = @ + 1]
    /\ UNCHANGED <<kind, pureVars, resources, resulting_page_count, loadVars, resolveVars,
                   blockVars, ctrlVars, workerVars, cacheVars>>

\* The loop is exhausted: the output document is closed, then the one
\* PROGRESS_UPDATE of run().
ImposeCompose(w) ==
    /\ kind = "impose" /\ w \in Workers /\ pc[w] = "compose"
    /\ sheet_no[w] = resulting_page_count[w]
    /\ message_queue' = Put(message_queue, ProgressUpdate(w, 1))
    /\ idx' = [idx EXCEPT ![w] = 1]
    /\ ended' = [ended EXCEPT ![w] = TRUE]
    /\ pc' = [pc EXCEPT ![w] = "done"]
    /\ UNCHANGED <<kind, pureVars, moreVars, df, file_page_limit, variable_column, input_files, df_chunks,
                   ctrl, threads, stop_event, cancelled, aliveAtInterrupt, outcomes,
                   total, progress, console, delivered, exc, released, cacheVars>>

-----------------------------------------------------------------------------
(* The collector loop of merge() / impose() and the final outcome. *)

\* view.process_message: log the three message kinds, advance on an update.
ProcessedConsole(log, m) ==
    IF m.type \in {"PROGRESS_MESSAGE", "PROGRESS_WARNING", "PROGRESS_ERROR"}
    THEN Append(log, m) ELSE log

ProcessedProgress(n, m) ==
    IF m.type = "PROGRESS_UPDATE" THEN n + m.body ELSE n

\* message_queue.get returns a message; the view processes it.
Collect ==
    /\ ctrl = "collect"
    /\ message_queue # <<>>
    /\ console' = ProcessedConsole(console, Head(message_queue))
    /\ delivered' = [delivered EXCEPT ![Head(message_queue).from] =
                                       Append(@, Head(message_queue))]
    /\ progress' = ProcessedProgress(progress, Head(message_queue))
    /\ message_queue' = Tail(message_queue)
    /\ UNCHANGED <<kind, pureVars, moreVars, df, file_page_limit, variable_column, input_files, df_chunks,
                   ctrl, threads, stop_event, cancelled, aliveAtInterrupt, outcomes,
                   total, workerVars, cacheVars>>

\* KeyboardInterrupt inside the try of the loop body, while get waits.
Interrupt ==
    /\ ctrl = "collect"
    /\ LoopCondition
    /\ stop_event' = TRUE
    /\ cancelled' = TRUE
    /\ aliveAtInterrupt' = (aliveAtInterrupt \/ AnyAlive)
    /\ UNCHANGED <<kind, pureVars, moreVars, df, file_page_limit, variable_column, input_files, df_chunks,
                   ctrl, threads, message_queue, outcomes, total, progress, console, delivered,
                   workerVars, cacheVars>>

\* KeyboardInterrupt in the try of the loop body once get has taken a
\* message off the queue: before process_message has acted on it, and the
\* message is gone, or after.
CollectInterrupted ==
    /\ ctrl = "collect"
    /\ message_queue # <<>>
    /\ \E processed \in BOOLEAN :
          /\ console' = IF processed THEN ProcessedConsole(console, Head(message_queue))
                        ELSE console
          /\ progress' = IF processed THEN ProcessedProgress(progress, Head(message_queue))
                         ELSE progress
    /\ delivered' = [delivered EXCEPT ![Head(message_queue).from] =
                                       Append(@, Head(message_queue))]
    /\ message_queue' = Tail(message_queue)
    /\ stop_event' = TRUE
    /\ cancelled' = TRUE
    /\ aliveAtInterrupt' = (aliveAtInterrupt \/ AnyAlive)
    /\ UNCHANGED <<kind, pureVars, moreVars, df, file_page_limit, variable_column, input_files, df_chunks,
                   ctrl, threads, outcomes, total, workerVars, cacheVars>>

\* The outcome with the two tests in the other order.
FinalOutcomeErrorFirst ==
    IF stop_event THEN "error" ELSE IF cancelled THEN "cancelled" ELSE "success"

\* The if / elif / fall-through after the loop.
FinalOutcome ==
    IF cancelled THEN "cancelled" ELSE IF stop_event THEN "error" ELSE "success"

\* The loop condition is false: display the result and return.
LoopExit ==
    /\ ctrl = "collect"
    /\ ~LoopCondition
    /\ outcomes' = Append(outcomes, FinalOutcome)
    /\ ctrl' = "done"
    /\ UNCHANGED <<kind, pureVars, moreVars, df, file_page_limit, variable_column, input_files, df_chunks,
                   threads, message_queue, stop_event, cancelled, aliveAtInterrupt,
                   total, progress, console, delivered, workerVars, cacheVars>>

Next ==
    \/ LoadData
    \/ ResolveFail
    \/ SplitAndSubmit
    \/ \E w \in Workers : ExecutorRun(w)
    \/ \E w \in Workers : StartThread(w)
    \/ StartCollecting
    \/ \E w \in Workers : MergeBegin(w)
    \/ \E w \in Workers : MergeCheck(w)
    \/ \E w \in Workers : MergeRow(w)
    \/ \E w \in Workers : MergeRowFail(w)
    \/ \E w \in Workers : MergeFinish(w)
    \/ \E w \in Workers : RunExcept(w)
    \/ \E w \in Workers : RunThrowError(w)
    \/ \E w \in Workers : ImposeOpen(w)
    \/ \E w \in Workers : ImposeSheet(w)
    \/ \E w \in Workers : ImposeCompose(w)
    \/ Collect
    \/ Interrupt
    \/ CollectInterrupted
    \/ LoopExit

Spec == Init /\ [][Next]_vars

\* A step of the thread w.
WorkerStep(w) ==
    \/ MergeBegin(w) \/ MergeCheck(w) \/ MergeRow(w) \/ MergeRowFail(w)
    \/ MergeFinish(w) \/ RunExcept(w) \/ RunThrowError(w)
    \/ ImposeOpen(w) \/ ImposeSheet(w) \/ ImposeCompose(w)

\* The runs that reach the collector loop whatever the data: merge() with a
\* fixed template, where resolution raises nothing, and impose().
InitFair ==
    \/ InitMerge /\ ~variable_column
    \/ InitImpose

NextFair ==
    \/ LoadData
    \/ SplitAndSubmit
    \/ \E w \in Workers : ExecutorRun(w)
    \/ \E w \in Workers : StartThread(w)
    \/ StartCollecting
    \/ \E w \in Workers : WorkerStep(w)
    \/ Collect
    \/ Interrupt
    \/ CollectInterrupted
    \/ LoopExit

\* A run in which every started thread keeps running until its run() ends, and
\* the main thread keeps executing its loop: get returns a queued message
\* within its timeout, and a false loop condition ends the loop.
FairSpec ==
    /\ InitFair /\ [][NextFair]_vars
    /\ \A w \in WorkerIds : WF_vars(WorkerStep(w))
    /\ WF_vars(Collect)
    /\ WF_vars(LoopExit)

\* The thread of a merge of up to MaxBlockRows rows in one chunk, with a fixed
\* template of one page given by the types of its blocks, as
\* _start_merge_thread has constructed and started it; merge() has set the
\* progress total and is in its loop.
InitBlocks ==
    /\ kind = "blocks"
    /\ variable_column = FALSE
    /\ df \in {MkDf(p) : p \in UNION {[1..m -> {1}] : m \in 1..MaxBlockRows}}
    /\ file_page_limit = MaxBlockRows
    /\ input_files = 0
    /\ df_chunks = SplitDataframeByPages(df, file_page_limit)
    /\ ctrl = "collect"
    /\ threads = 1..Len(df_chunks)
    /\ total = SumPages(df)
    /\ message_queue = <<>>
    /\ stop_event = FALSE
    /\ cancelled = FALSE
    /\ aliveAtInterrupt = FALSE
    /\ outcomes = <<>>
    /\ progress = 0
    /\ console = <<>>
    /\ delivered = [s \in Senders |-> <<>>]
    /\ pc = [w \in threads |-> "begin"]
    /\ idx = [w \in threads |-> 0]
    /\ exc = [w \in threads |-> "none"]
    /\ released = [w \in threads |-> FALSE]
    /\ ended = [w \in threads |-> FALSE]
    /\ resources = [w \in threads |-> [output_path |-> OutputPath(w), documents |-> {}]]
    /\ resulting_page_count = <<>>
    /\ sheet_no = <<>>
    /\ blocks \in SeqsUpTo(BlockTypes, MaxBlocks)
    /\ block_no = [w \in threads |-> 0]
    /\ composed = [w \in threads |-> <<>>]
    /\ CacheIdle /\ PureIdle /\ LoadIdle /\ ResolveIdle

\* The steps of the thread, with merge_document taken block by block.
NextBlocks ==
    \/ \E w \in Workers : MergeBegin(w)
    \/ \E w \in Workers : MergeCheck(w)
    \/ \E w \in Workers : MergeDocument(w)
    \/ \E w \in Workers : MergeBlock(w)
    \/ \E w \in Workers : MergeRowEnd(w)
    \/ \E w \in Workers : MergeFinish(w)
    \/ \E w \in Workers : RunExcept(w)
    \/ \E w \in Workers : RunThrowError(w)

SpecBlocks == InitBlocks /\ [][NextBlocks]_vars

-----------------------------------------------------------------------------
(* The partitioner on its own. *)

SplitPages == {-1} \cup (1..SplitMaxPages)

InitSplit ==
    /\ kind = "split"
    /\ variable_column = FALSE
    /\ df \in {MkDf(p) : p \in SeqsUpTo(SplitPages, SplitMaxRows)}
    /\ file_page_limit \in 0..SplitMaxLimit
    /\ input_files = 0
    /\ ctrl = "split"
    /\ CtrlStart /\ WorkersIdle /\ CacheIdle /\ MoreIdle /\ PureIdle

SplitOnly ==
    /\ kind = "split" /\ ctrl = "split"
    /\ df_chunks' = SplitDataframeByPages(df, file_page_limit)
    /\ ctrl' = "done"
    /\ UNCHANGED <<kind, pureVars, moreVars, df, file_page_limit, variable_column, input_files, threads,
                   message_queue, stop_event, cancelled, aliveAtInterrupt, outcomes,
                   total, progress, console, delivered, workerVars, cacheVars>>

NextSplit == SplitOnly

SpecSplit == InitSplit /\ [][NextSplit]_vars

-----------------------------------------------------------------------------
(* MergeCache and the engine's handles.                                    *)
(* The files: a.pdf has two pages, b.pdf one, x.pdf cannot be opened;      *)
(* i.png and g.svg exist, missing.png and missing.svg do not.              *)

DocPaths == {"a.pdf", "b.pdf", "x.pdf"}
ImagePaths == {"i.png", "missing.png"}
GraphicsPaths == {"g.svg", "missing.svg"}

\* pcos "length:pages" of an openable file, -1 for one open_pdi_document rejects.
PageCount(path) ==
    CASE path = "a.pdf" -> 2
      [] path = "b.pdf" -> 1
      [] OTHER -> -1

Exists(path) == path \in {"i.png", "g.svg"}

Handle(type, path, owner) == [type |-> type, path |-> path, owner |-> owner]

\* Page(handle, image_handle, number, ..., is_block_reference)
Page(handle, image_handle, number, ref) ==
    [handle |-> handle, image_handle |-> image_handle, number |-> number,
     is_block_reference |-> ref]

Document(name, handle, pages) == [name |-> name, handle |-> handle, pages |-> pages]

\* dict lookup and assignment, keeping insertion order.
Has(d, path) == \E k \in 1..Len(d) : d[k].path = path
Lookup(d, path) == d[CHOOSE k \in 1..Len(d) : d[k].path = path].val
Assign(d, path, val) ==
    IF Has(d, path)
    THEN [k \in 1..Len(d) |-> IF d[k].path = path THEN [path |-> path, val |-> val]
                                                  ELSE d[k]]
    ELSE Append(d, [path |-> path, val |-> val])

InitCache ==
    /\ kind = "cache"
    /\ variable_column = FALSE
    /\ df = <<>>
    /\ file_page_limit = 0
    /\ input_files = 0
    /\ ctrl = "cache"
    /\ CtrlStart /\ WorkersIdle /\ CacheIdle /\ MoreIdle /\ PureIdle

\* _load_document: the handles it creates for path, given the number h of
\* handles created so far: the document, then per page the page and its
\* template image.
LoadedHandles(path, h) ==
    [k \in 1..(1 + 2 * PageCount(path)) |->
        IF k = 1 THEN Handle("document", path, 0)
        ELSE IF k % 2 = 0 THEN Handle("page", path, h + 1)
        ELSE Handle("template", path, h + 1)]

\* _load_document / _load_page: the Document it returns.
LoadedDocument(path, h) ==
    Document(path, h + 1,
             [n \in 1..PageCount(path) |-> Page(h + 2 * n, h + 2 * n + 1, n, FALSE)])

Step(op) ==
    /\ kind = "cache"
    /\ nops < MaxOps
    /\ nops' = nops + 1
    /\ lastOp' = op
    /\ UNCHANGED <<kind, pureVars, moreVars, ctrlVars, workerVars>>

GetOrCacheDocument(path) ==
    /\ Step("get_or_cache_document")
    /\ IF Has(cached_documents, path)
       THEN /\ returned' = returned \cup {<<path, Lookup(cached_documents, path).handle>>}
            /\ UNCHANGED <<cached_documents, handles>>
       ELSE IF PageCount(path) < 0
       THEN \* open_pdi_document < 0: MergeCacheException
            UNCHANGED <<cached_documents, handles, returned>>
       ELSE /\ handles' = handles \o LoadedHandles(path, Len(handles))
            /\ cached_documents' =
                   Assign(cached_documents, path, LoadedDocument(path, Len(handles)))
            /\ returned' = returned \cup {<<path, Len(handles) + 1>>}
    /\ UNCHANGED <<cached_images, cached_graphics, closed>>

GetOrCacheImage(path) ==
    /\ Step("get_or_cache_image")
    /\ IF ~Exists(path) \/ Has(cached_images, path)
       THEN UNCHANGED <<cached_images, handles>>
       ELSE /\ handles' = Append(handles, Handle("image", path, 0))
            /\ cached_images' = Assign(cached_images, path, Len(handles) + 1)
    /\ UNCHANGED <<cached_documents, cached_graphics, closed, returned>>

GetOrCacheGraphics(path) ==
    /\ Step("get_or_cache_graphics")
    /\ IF ~Exists(path) \/ Has(cached_graphics, path)
       THEN UNCHANGED <<cached_graphics, handles>>
       ELSE /\ handles' = Append(handles, Handle("graphics", path, 0))
            /\ cached_graphics' = Assign(cached_graphics, path, Len(handles) + 1)
    /\ UNCHANGED <<cached_documents, cached_images, closed, returned>>

GetOrCachePdfPage(path, page_number) ==
    /\ Step("get_or_cache_pdf_page")
    /\ LET cached == Has(cached_documents, path)
           found == cached /\ \E k \in 1..Len(Lookup(cached_documents, path).pages) :
                        Lookup(cached_documents, path).pages[k].number = page_number
           \* the document handle, opened here when the path is not cached
           opened == IF cached THEN handles
                     ELSE Append(handles, Handle("document", path, 0))
           doc == IF cached THEN Lookup(cached_documents, path)
                  ELSE Document(path, Len(handles) + 1, <<>>)
       IN  IF found
           THEN UNCHANGED <<cached_documents, handles>>
           ELSE IF ~cached /\ PageCount(path) < 0
           THEN \* open_pdi_document < 0: MergeCacheException
                UNCHANGED <<cached_documents, handles>>
           ELSE IF page_number > PageCount(path)
           THEN \* open_pdi_page < 0: MergeCacheException, the document not cached
                /\ handles' = opened
                /\ UNCHANGED cached_documents
           ELSE /\ handles' = Append(opened, Handle("page", path, doc.handle))
                /\ cached_documents' =
                       Assign(cached_documents, path,
                              Document(path, doc.handle,
                                       Append(doc.pages,
                                              Page(Len(opened) + 1, -1, page_number, TRUE))))
    /\ UNCHANGED <<cached_images, cached_graphics, closed, returned>>

\* The handles clear_cache closes for one page, in order.
PageCloses(page) ==
    IF page.is_block_reference THEN <<page.handle>>
    ELSE <<page.image_handle, page.handle>>

RECURSIVE PagesCloses(_)
PagesCloses(pages) ==
    IF pages = <<>> THEN <<>> ELSE PageCloses(pages[1]) \o PagesCloses(Tail(pages))

\* ... for the documents, in dict order: each document's pages, then the document.
RECURSIVE DocumentsCloses(_)
DocumentsCloses(docs) ==
    IF docs = <<>> THEN <<>>
    ELSE PagesCloses(docs[1].val.pages) \o <<docs[1].val.handle>>
         \o DocumentsCloses(Tail(docs))

ImagesCloses(images) == [k \in 1..Len(images) |-> images[k].val]

ClearCache ==
    /\ Step("clear_cache")
    /\ IF cached_documents = <<>>
       THEN UNCHANGED <<cached_documents, closed>>
       ELSE /\ closed' = closed \o ImagesCloses(cached_images)
                                \o DocumentsCloses(cached_documents)
            /\ cached_documents' = <<>>
    /\ UNCHANGED <<cached_images, cached_graphics, handles, returned>>

NextCache ==
    \/ \E path \in DocPaths : GetOrCacheDocument(path)
    \/ \E path \in ImagePaths : GetOrCacheImage(path)
    \/ \E path \in GraphicsPaths : GetOrCacheGraphics(path)
    \/ \E path \in DocPaths, page_number \in 1..MaxPageNo :
          GetOrCachePdfPage(path, page_number)
    \/ ClearCache

SpecCache == InitCache /\ [][NextCache]_vars

-----------------------------------------------------------------------------
(* replace_merge_fields on its own. A string is a sequence of characters.  *)

Chars == {"«", "»", "n", "N", " ", "\r", "\n"}

Texts == SeqsUpTo(Chars, MaxTextLen)

\* A cell of the row: a string, or None for an empty cell of the data file.
Str(s) == [null |-> FALSE, s |-> s]
None == [null |-> TRUE, s |-> <<>>]

Cells == {Str(<<"X">>), Str(<<>>), Str(<<" ", "X">>), None}

\* The rows: without any column, or with the column n.
Rows == {<<>>} \cup {[k \in {<<"n">>} |-> c] : c \in Cells}

\* A lower() that leaves the name as it is written.
LowerIdentity(s) == s

\* str.lower()
Lower(s) == [k \in 1..Len(s) |-> IF s[k] = "N" THEN "n" ELSE s[k]]

\* The index at which the match of «(.*?)» starting at index i ends, 0 if there
\* is none: the nearest » after a « at i, no line feed in between.
MatchEnd(t, i) ==
    LET ends == {j \in (i + 1)..Len(t) :
                    t[j] = "»" /\ \A k \in (i + 1)..(j - 1) : t[k] # "\n"}
    IN  IF t[i] = "«" /\ ends # {}
        THEN CHOOSE j \in ends : \A e \in ends : j <= e
        ELSE 0

\* What a call returns, and the MergeFieldException naming a column.
Ok(s) == [ok |-> TRUE, val |-> s]
Raised(key) == [ok |-> FALSE, val |-> key]

\* re.sub("«(.*?)»", lambda m: row[m.group(1).lower()], text) from index i on:
\* the matches are replaced from left to right, the first KeyError ends it, and
\* a None the lambda returns is replaced by nothing.
RECURSIVE SubFields(_, _, _)
SubFields(t, i, r) ==
    IF i > Len(t) THEN Ok(<<>>)
    ELSE LET j == MatchEnd(t, i)
             key == Lower(SubSeq(t, i + 1, j - 1))
             rest == SubFields(t, IF j = 0 THEN i + 1 ELSE j + 1, r)
         IN  IF j = 0
             THEN IF rest.ok THEN Ok(<<t[i]>> \o rest.val) ELSE rest
             ELSE IF key \notin DOMAIN r THEN Raised(key)
             ELSE IF rest.ok
             THEN Ok((IF r[key].null THEN <<>> ELSE r[key].s) \o rest.val)
             ELSE rest

IsCrLf(t, i) == i + 1 <= Len(t) /\ t[i] = "\r" /\ t[i + 1] = "\n"

\* The index after the run of \r\n pairs that begins at index i.
RECURSIVE RunEnd(_, _)
RunEnd(t, i) == IF IsCrLf(t, i) THEN RunEnd(t, i + 2) ELSE i

\* re.sub("(\r\n)+", "\r\n", text) from index i on.
RECURSIVE CollapseBreaks(_, _)
CollapseBreaks(t, i) ==
    IF i > Len(t) THEN <<>>
    ELSE IF IsCrLf(t, i) THEN <<"\r", "\n">> \o CollapseBreaks(t, RunEnd(t, i))
    ELSE <<t[i]>> \o CollapseBreaks(t, i + 1)

Whitespace == {" ", "\r", "\n"}

\* str.strip()
Strip(t) ==
    LET ks == {k \in 1..Len(t) : t[k] \notin Whitespace}
    IN  IF ks = {} THEN <<>>
        ELSE SubSeq(t, CHOOSE a \in ks : \A k \in ks : a <= k,
                       CHOOSE b \in ks : \A k \in ks : b >= k)

\* The try block: the two substitutions and the strip.
Substituted(t, r) ==
    LET subbed == SubFields(t, 1, r)
    IN  IF subbed.ok THEN Ok(Strip(CollapseBreaks(subbed.val, 1))) ELSE subbed

\* The function without its test for the empty string.
ReplaceMergeFieldsUnguarded(t, r) == Substituted(t, r)

ReplaceMergeFields(t, r) ==
    LET done == Substituted(t, r)
    IN  IF done.ok /\ done.val = <<>> THEN Ok(<<" ">>) ELSE done

InitFields ==
    /\ kind = "fields"
    /\ variable_column = FALSE
    /\ df = <<>>
    /\ file_page_limit = 0
    /\ input_files = 0
    /\ ctrl = "fields"
    /\ CtrlStart /\ WorkersIdle /\ CacheIdle /\ MoreIdle
    /\ text \in Texts
    /\ row \in Rows
    /\ result = <<>>
    /\ options = <<>>
    /\ sheets = <<>>

\* The argument of the next call: the text, then what the call before returned.
NextText == IF result = <<>> THEN text ELSE result[Len(result)].val

\* replace_merge_fields(text, row), and once more on the text it returned.
CallReplaceMergeFields ==
    /\ kind = "fields"
    /\ Len(result) < 2
    /\ result # <<>> => result[1].ok
    /\ result' = Append(result, ReplaceMergeFields(NextText, row))
    /\ UNCHANGED <<kind, text, row, options, sheets, moreVars, ctrlVars, workerVars, cacheVars>>

NextFields == CallReplaceMergeFields

SpecFields == InitFields /\ [][NextFields]_vars

-----------------------------------------------------------------------------
(* The composition of ImpositionThread.run on its own. Lengths are in      *)
(* points and even, so that the halves the code takes are whole numbers.   *)

\* gutter (halved, as run() halves it), bleed, sheet_size; and the width and
\* height of page 1 of the input.
Gutters == {<<0, 0>>, <<2, 4>>}
Bleeds == {<<0, 0>>, <<2, 2>>}
SheetSizes == {<<4, 4>>, <<20, 28>>}
InputPageSizes == {<<2, 4>>}

Max0(x) == IF x > 0 THEN x ELSE 0

\* A quotient rounded down.
CeilDown(a, b) == a \div b

\* math.ceil(a / b)
Ceil(a, b) == (a + b - 1) \div b

\* shape
Shape(o) == o.rows * o.columns

\* resulting_page_count, corrected for duplex.
ResultingPageCount(o) ==
    LET n == Ceil(o.page_count, Shape(o))
    IN  IF o.duplex /\ n % 2 # 0 THEN n + 1 ELSE n

\* gutter_w, gutter_h less the bleed; img_w, img_h; margin_w, margin_h.
GutterOf(o) == <<Max0(o.gutter[1] - o.bleed[1]), Max0(o.gutter[2] - o.bleed[2])>>
ImgOf(o) == <<o.page_size[1] + GutterOf(o)[1] * 2, o.page_size[2] + GutterOf(o)[2] * 2>>
MarginOf(o) ==
    <<Max0((o.sheet_size[1] - ImgOf(o)[1] * o.columns) \div 2),
      Max0((o.sheet_size[2] - ImgOf(o)[2] * o.rows) \div 2)>>

\* signature, by slot j + 1.
Signature(o) == [s \in 1..Shape(o) |-> (s - 1) * ResultingPageCount(o) + 1]

\* _calculate_img_positions: (x1, y1, x2, y2) by slot, row by row; x2 and y2
\* stay 0.0 without duplex.
CalculateImgPositions(o) ==
    [s \in 1..Shape(o) |->
        LET i == (s - 1) \div o.columns
            j == (s - 1) % o.columns
            img_w == ImgOf(o)[1]
            img_h == ImgOf(o)[2]
            y == img_h * o.rows - img_h * (i + 1) + GutterOf(o)[2] + MarginOf(o)[2]
        IN  <<img_w * j + GutterOf(o)[1] + MarginOf(o)[1],
              y,
              IF o.duplex
              THEN img_w * o.columns - img_w * (j + 1) + GutterOf(o)[1] + MarginOf(o)[1]
              ELSE 0,
              IF o.duplex THEN y ELSE 0>>]

\* The fit_page calls of the sheet of 0-based index i, from slot s on.
RECURSIVE PlaceSlots(_, _, _)
PlaceSlots(o, i, s) ==
    IF s > Shape(o) THEN <<>>
    ELSE LET page_number == Signature(o)[s] + i
             sig_idx == IF i % 2 = 0 /\ o.duplex THEN 2 ELSE 0
             img_pos == CalculateImgPositions(o)
         IN  (IF page_number > o.page_count THEN <<>>
              ELSE <<[slot |-> s - 1, page |-> page_number,
                      x |-> img_pos[s][sig_idx + 1], y |-> img_pos[s][sig_idx + 2]]>>)
             \o PlaceSlots(o, i, s + 1)

InitSheets ==
    /\ kind = "sheets"
    /\ variable_column = FALSE
    /\ df = <<>>
    /\ file_page_limit = 0
    /\ input_files = 0
    /\ ctrl = "sheets"
    /\ CtrlStart /\ WorkersIdle /\ CacheIdle /\ MoreIdle
    /\ text = <<>>
    /\ row = <<>>
    /\ result = <<>>
    /\ options \in [rows : 1..MaxGrid, columns : 1..MaxGrid, duplex : BOOLEAN,
                     gutter : Gutters, bleed : Bleeds, sheet_size : SheetSizes,
                     page_size : InputPageSizes, page_count : 1..MaxInputPages]
    /\ sheets = <<>>

\* One pass of the loop over the output sheets: start_page, the slots.
ComposeSheet ==
    /\ kind = "sheets"
    /\ Len(sheets) < ResultingPageCount(options)
    /\ sheets' = Append(sheets, PlaceSlots(options, Len(sheets), 1))
    /\ UNCHANGED <<kind, text, row, result, options, moreVars, ctrlVars, workerVars, cacheVars>>

NextSheets == ComposeSheet

SpecSheets == InitSheets /\ [][NextSheets]_vars

-----------------------------------------------------------------------------
(* _load_data on its own. A cell is a string; read_csv turns the empty     *)
(* field into null. A row is [ord, cells], ord its 1-based position in the *)
(* file.                                                                   *)

CellValues == {"", "a", "b"}

\* The rows a data file can have: a key column, then the other columns.
CsvRowValues ==
    {c \in [1..CsvCols -> CellValues \cup {"k"}] :
        /\ c[1] \in {"", "k"}
        /\ \A j \in 2..CsvCols : c[j] \in CellValues}

MkCsv(cs) == [k \in 1..Len(cs) |-> [ord |-> k, cells |-> cs[k]]]

IsNull(c) == c = ""

\* pl.all_horizontal(pl.col(df.columns[1:]).is_null())
NonKeyColumnsNull(r) == \A j \in 2..Len(r.cells) : IsNull(r.cells[j])

\* pl.all_horizontal(pl.all().is_null())
AllColumnsNull(r) == \A j \in 1..Len(r.cells) : IsNull(r.cells[j])

NullDf(rows) == SelectSeq(rows, NonKeyColumnsNull)

\* with_row_count numbers the rows from 0; the warning lists the numbers + 1.
RowIndices(null_df) == [k \in 1..Len(null_df) |-> null_df[k].ord]

DroppedWarning(null_df) ==
    Msg("PROGRESS_WARNING", 0,
        [text |-> "Dropped empty row(s)", row_count |-> Len(null_df),
         row_indices |-> RowIndices(null_df)])

\* df.filter(~pl.all_horizontal(pl.all().is_null()))
DropEmptyRows(rows) == SelectSeq(rows, LAMBDA r : ~AllColumnsNull(r))

\* The number of rows sampled for a proof.
ProofSample == 3

\* The column named by MergeOptions.variable_column: the last one.
VariableValue(r) == r.cells[Len(r.cells)]

\* The order of sort(): nulls first, then the strings in their order.
Rank(c) ==
    CASE c = "" -> 0
      [] c = "a" -> 1
      [] c = "b" -> 2

Ords(rows) == {rows[k].ord : k \in 1..Len(rows)}

Group(rows, v) == {rows[k].ord : k \in {i \in 1..Len(rows) : VariableValue(rows[i]) = v}}

Least(a, b) == IF a <= b THEN a ELSE b

\* int_range(len()).shuffle().over(column) < 3: of every group, ProofSample
\* rows chosen at random, or the whole group when it has no more.
GroupSamples(rows) ==
    {K \in SUBSET Ords(rows) :
        \A v \in CellValues :
            Cardinality(K \cap Group(rows, v)) =
                Least(ProofSample, Cardinality(Group(rows, v)))}

\* filter keeps the rows in their order.
Pick(rows, K) == SelectSeq(rows, LAMBDA r : r.ord \in K)

Orders(rows) ==
    {s \in [1..Len(rows) -> Range(rows)] : \A i, j \in 1..Len(rows) : s[i] = s[j] => i = j}

\* sort(by=column) with maintain_order left at False: any order of the rows in
\* which the column does not decrease.
Sorts(rows) ==
    {s \in Orders(rows) :
        \A i, j \in 1..Len(s) :
            i < j => Rank(VariableValue(s[i])) <= Rank(VariableValue(s[j]))}

\* sample(n, shuffle=True): n distinct rows, in a random order.
Samples(rows, n) ==
    {s \in [1..n -> Range(rows)] : \A i, j \in 1..n : s[i] = s[j] => i = j}

InitLoad ==
    /\ kind = "load"
    /\ csv \in {MkCsv(cs) : cs \in SeqsUpTo(CsvRowValues, MaxCsvRows)}
    /\ generate_proof \in BOOLEAN
    /\ variable_column \in BOOLEAN
    /\ df = <<>>
    /\ file_page_limit = 0
    /\ input_files = 0
    /\ ctrl = "load"
    /\ CtrlStart /\ WorkersIdle /\ CacheIdle /\ PureIdle
    /\ OwnIdle /\ ResolveIdle /\ BlocksIdle

\* _load_data: the warning, the filter and, for a proof, the sample. sample()
\* raises when asked for more rows than there are.
LoadCsv ==
    /\ kind = "load" /\ ctrl = "load"
    /\ message_queue' = IF NullDf(csv) # <<>>
                        THEN Put(message_queue, DroppedWarning(NullDf(csv)))
                        ELSE message_queue
    /\ LET kept == DropEmptyRows(csv)
       IN  IF ~generate_proof
           THEN df' = kept /\ ctrl' = "done"
           ELSE IF variable_column
           THEN /\ \E K \in GroupSamples(kept) : df' \in Sorts(Pick(kept, K))
                /\ ctrl' = "done"
           ELSE IF Len(kept) < ProofSample
           THEN df' = df /\ ctrl' = "raised"
           ELSE df' \in Samples(kept, ProofSample) /\ ctrl' = "done"
    /\ UNCHANGED <<kind, pureVars, moreVars, file_page_limit, variable_column, input_files,
                   df_chunks, threads, stop_event, cancelled, aliveAtInterrupt, outcomes,
                   total, progress, console, delivered, workerVars, cacheVars>>

NextLoad == LoadCsv

SpecLoad == InitLoad /\ [][NextLoad]_vars

-----------------------------------------------------------------------------
(* _set_template_page_count_column on its own, on rows [ord, path] whose   *)
(* path is the column __pypress_template_path, over the files of DocPaths. *)

MkPaths(ps) == [k \in 1..Len(ps) |-> [ord |-> k, path |-> ps[k]]]

\* A fixed template gives every row options.template_path.
InitResolve ==
    /\ kind = "resolve"
    /\ variable_column \in BOOLEAN
    /\ df \in {MkPaths(ps) : ps \in SeqsUpTo(DocPaths, MaxResolveRows)}
    /\ ~variable_column => df # <<>> /\ \A k \in 1..Len(df) : df[k].path = df[1].path
    /\ file_page_limit = 0
    /\ input_files = 0
    /\ ctrl = "resolve"
    /\ CtrlStart /\ WorkersIdle /\ CacheIdle /\ PureIdle /\ MoreIdle

\* get_document_page_count(file_path): what it returns, the calls of
\* open_document after it, and the memo after it. A file that cannot be
\* opened gives -1 and is not entered into the memo.
GetDocumentPageCount(file_path) ==
    IF Has(seen_documents_page_count, file_path)
    THEN Lookup(seen_documents_page_count, file_path)
    ELSE IF PageCount(file_path) < 0 THEN -1 ELSE PageCount(file_path)

OpenCallsAfter(file_path) ==
    IF Has(seen_documents_page_count, file_path) THEN open_calls
    ELSE Append(open_calls, file_path)

SeenAfter(file_path) ==
    IF Has(seen_documents_page_count, file_path) \/ PageCount(file_path) < 0
    THEN seen_documents_page_count
    ELSE Assign(seen_documents_page_count, file_path, PageCount(file_path))

\* with_columns(... .alias("__pypress_template_page_count"))
WithPageCounts(rows, counts) ==
    [k \in 1..Len(rows) |-> [ord |-> rows[k].ord, path |-> rows[k].path,
                             pages |-> counts[k]]]

\* Without a variable column: one call, its result the literal of every row,
\* and the return before the test for bad rows.
ResolveFixed ==
    /\ kind = "resolve" /\ ctrl = "resolve"
    /\ ~variable_column
    /\ page_counts' = [k \in 1..Len(df) |-> GetDocumentPageCount(df[1].path)]
    /\ open_calls' = OpenCallsAfter(df[1].path)
    /\ seen_documents_page_count' = SeenAfter(df[1].path)
    /\ df' = WithPageCounts(df, page_counts')
    /\ ctrl' = "done"
    /\ UNCHANGED <<kind, pureVars, ownVars, loadVars, blockVars, file_page_limit,
                   variable_column, input_files, df_chunks, threads, message_queue,
                   stop_event, cancelled, aliveAtInterrupt, outcomes, total, progress,
                   console, delivered, workerVars, cacheVars>>

\* apply(get_document_page_count): the call for the next row.
ResolveElement ==
    /\ kind = "resolve" /\ ctrl = "resolve"
    /\ variable_column
    /\ Len(page_counts) < Len(df)
    /\ LET file_path == df[Len(page_counts) + 1].path
       IN  /\ page_counts' = Append(page_counts, GetDocumentPageCount(file_path))
           /\ open_calls' = OpenCallsAfter(file_path)
           /\ seen_documents_page_count' = SeenAfter(file_path)
    /\ UNCHANGED <<kind, pureVars, ownVars, loadVars, blockVars, ctrlVars, workerVars,
                   cacheVars>>

\* The column is attached; TemplateNotFound is raised if a count is negative.
ResolveEnd ==
    /\ kind = "resolve" /\ ctrl = "resolve"
    /\ variable_column
    /\ Len(page_counts) = Len(df)
    /\ df' = WithPageCounts(df, page_counts)
    /\ ctrl' = IF \E k \in 1..Len(page_counts) : page_counts[k] < 0
               THEN "raised" ELSE "done"
    /\ UNCHANGED <<kind, pureVars, moreVars, file_page_limit, variable_column, input_files,
                   df_chunks, threads, message_queue, stop_event, cancelled,
                   aliveAtInterrupt, outcomes, total, progress, console, delivered,
                   workerVars, cacheVars>>

NextResolve == ResolveFixed \/ ResolveElement \/ ResolveEnd

SpecResolve == InitResolve /\ [][NextResolve]_vars

-----------------------------------------------------------------------------
(* Properties of the partitioner (SpecSplit). *)

RECURSIVE SumSizes(_)
SumSizes(chunks) ==
    IF chunks = <<>> THEN 0 ELSE Len(chunks[1]) + SumSizes(Tail(chunks))

\* C1: the chunks of _split_dataframe_by_pages, concatenated in chunk order,
\* are the input rows: every row lies in exactly one chunk, every chunk is a
\* non-empty contiguous run in source order, and the sizes sum to the row count.
ChunksPartitionRows ==
    ctrl = "done" =>
        /\ Flatten(df_chunks) = df
        /\ \A k \in 1..Len(df_chunks) : df_chunks[k] # <<>>
        /\ SumSizes(df_chunks) = Len(df)
        /\ \A r \in 1..Len(df) :
              Cardinality({k \in 1..Len(df_chunks) : df[r] \in Range(df_chunks[k])}) = 1

\* A split of at least three rows into at least two chunks, one of several rows.
ChunksPartitionRowsWitness ==
    /\ kind = "split" /\ ctrl = "done"
    /\ Len(df) >= 3
    /\ Len(df_chunks) >= 2
    /\ \E k \in 1..Len(df_chunks) : Len(df_chunks[k]) >= 2

\* C2: for a limit >= 1 and page counts >= 1, no chunk has a page sum above
\* the limit, except a chunk of a single row whose own page count exceeds it.
NoChunkOverLimit ==
    (/\ kind = "split" /\ ctrl = "done"
     /\ file_page_limit >= 1
     /\ \A r \in 1..Len(df) : df[r].pages >= 1)
    => \A k \in 1..Len(df_chunks) :
          \/ SumPages(df_chunks[k]) <= file_page_limit
          \/ Len(df_chunks[k]) = 1 /\ df_chunks[k][1].pages > file_page_limit

\* The page sum of the first j rows of a chunk.
RunningSum(chunk, j) == SumPages(SubSeq(chunk, 1, j))

-----------------------------------------------------------------------------
(* Properties of the cache (SpecCache). *)

HandleIds == 1..Len(handles)

\* The number of successful open_pdi_document calls for path.
Opens(path) ==
    Cardinality({h \in HandleIds : handles[h].type = "document" /\ handles[h].path = path})

Closes(h) == Cardinality({k \in 1..Len(closed) : closed[k] = h})

\* C3: until the cache is cleared, get_or_cache_document returns one and the
\* same Document for a path, and at most one open_pdi_document succeeds per path.
OneOpenPerPath ==
    (kind = "cache" /\ closed = <<>>) =>
        \A path \in DocPaths :
            /\ Cardinality({r \in returned : r[1] = path}) <= 1
            /\ Opens(path) <= 1

\* C4: right after a clear_cache that found documents cached, every handle the
\* cache created has been released exactly once, loaded images and graphics
\* before any page handle, and no document handle before any of its page handles.
ClearReleasesEverything ==
    (kind = "cache" /\ lastOp = "clear_cache" /\ closed # <<>>) =>
        /\ \A h \in HandleIds : Closes(h) = 1
        /\ \A i, j \in 1..Len(closed) :
              (/\ handles[closed[i]].type \in {"page", "template"}
               /\ handles[closed[j]].type \in {"image", "graphics"}) => j < i
        /\ \A i, j \in 1..Len(closed) :
              (/\ handles[closed[i]].type = "document"
               /\ handles[closed[j]].type \in {"page", "template"}
               /\ handles[closed[j]].owner = closed[i]) => j < i

\* C30: a Document that get_or_cache_document returned, and that is still
\* cached, holds exactly the pages 1..page_count of its file, in order, each
\* with the handle of a template image and none marked as a block reference.
ReturnedDocumentsAreComplete ==
    kind = "cache" =>
        \A path \in DocPaths :
            (/\ Has(cached_documents, path)
             /\ <<path, Lookup(cached_documents, path).handle>> \in returned)
            => LET doc == Lookup(cached_documents, path)
               IN  /\ Len(doc.pages) = PageCount(path)
                   /\ \A n \in 1..Len(doc.pages) :
                         /\ doc.pages[n].number = n
                         /\ ~doc.pages[n].is_block_reference
                         /\ doc.pages[n].image_handle \in HandleIds
                         /\ handles[doc.pages[n].image_handle].type = "template"

-----------------------------------------------------------------------------
(* Properties of a run (Spec). *)

Terminated(w) == pc[w] \in {"done", "shutdown", "failed", "crashed"}

Logged(m) == \E k \in 1..Len(console) : console[k] = m

QueuedFrom(w) == SelectSeq(message_queue, LAMBDA m : m.from = w)

\* Every message the publisher w has put: those the loop has taken off the
\* queue, then those still queued.
Published(w) == delivered[w] \o QueuedFrom(w)

HasPublished(w, m) == \E k \in 1..Len(Published(w)) : Published(w)[k] = m

\* C5: a merge worker that has terminated, whichever way, after it began its
\* output document has released its cache and finalized the document.
WorkerReleasesOnEveryExit ==
    kind = "merge" =>
        \A w \in Workers :
            (Terminated(w) /\ exc[w] \notin {"begin", "ComputeError"})
                => released[w] /\ ended[w]

CompletedUnit(w) ==
    /\ pc[w] = "done"
    /\ kind = "merge" => idx[w] = Len(Chunk(w))

\* C7: a run displays exactly one outcome, and 'success' only if every worker
\* completed its unit of work, none had a fatal error and no interrupt occurred.
OneOutcomeSuccessOnlyIfComplete ==
    ctrl = "done" =>
        /\ Len(outcomes) = 1
        /\ outcomes[1] = "success" =>
              /\ \A w \in Workers : CompletedUnit(w) /\ exc[w] = "none"
              /\ ~cancelled

\* C8: a worker that failed has set the stop flag, and a sibling that comes to
\* its per-row check with the flag set publishes 'Shutting down' and returns,
\* raising nothing.
FatalErrorStopsSiblings ==
    /\ [](\A w \in Workers : pc[w] = "failed" => stop_event)
    /\ [][\A w \in Workers :
            (/\ kind = "merge" /\ stop_event
             /\ pc[w] = "check" /\ idx[w] < Len(Chunk(w))
             /\ pc'[w] # pc[w])
            => /\ pc'[w] = "shutdown"
               /\ message_queue' = Append(message_queue, ShuttingDown(w))
               /\ exc'[w] = "none"
               /\ idx'[w] = idx[w]]_vars

\* One worker failed and a sibling with rows left shut down, with no interrupt.
FatalErrorStopsSiblingsWitness ==
    /\ kind = "merge" /\ ~cancelled
    /\ \E w, v \in Workers :
          /\ pc[w] = "failed"
          /\ pc[v] = "shutdown" /\ exc[v] = "none" /\ idx[v] < Len(Chunk(v))

\* C9: whenever a worker reported a fatal error, the outcome displayed is 'error'.
ErrorAlwaysDisplayed ==
    (kind = "merge" /\ ctrl = "done" /\ \E w \in Workers : pc[w] = "failed")
    => outcomes = <<"error">>

\* C9, amended: whenever a worker reported a fatal error, the outcome
\* displayed is 'error' unless an interrupt was caught, and then 'cancelled'.
ErrorDisplayedUnlessCancelled ==
    (kind = "merge" /\ ctrl = "done" /\ \E w \in Workers : pc[w] = "failed")
    => outcomes = <<IF cancelled THEN "cancelled" ELSE "error">>

\* A finished run without interrupt in which a worker failed and its
\* PROGRESS_ERROR was logged.
ErrorDisplayedWitness ==
    /\ kind = "merge" /\ ctrl = "done" /\ ~cancelled
    /\ \E w \in Workers : pc[w] = "failed" /\ Logged(ProgressError(w))

\* C10: when the only failure of a run is one worker's merge-field error,
\* every other worker processes every row of its chunk.
FieldErrorLeavesOthersRunning ==
    (/\ kind = "merge" /\ ctrl = "done" /\ ~cancelled
     /\ \E w \in Workers :
           exc[w] = "field" /\ \A v \in Workers \ {w} : exc[v] = "none")
    => \A v \in Workers : exc[v] = "none" => idx[v] = Len(Chunk(v))

\* C10, amended: a merge-field error makes only the worker that owns the chunk
\* raise (a worker raises only out of its own begin_document or its own row,
\* never out of the stop check), but it sets the stop flag, and a worker that
\* finds the flag set at a per-row check processes no further row.
FieldErrorRaisesOnlyInOwner ==
    /\ [](\A w \in Workers : exc[w] = "field" => stop_event)
    /\ [][\A w \in Workers :
            /\ (pc'[w] = "except" /\ pc[w] # "except") => pc[w] \in {"begin", "row"}
            /\ (stop_event /\ pc[w] = "check" /\ idx[w] < Len(Chunk(w)))
                   => (idx'[w] = idx[w] /\ pc'[w] # "row")]_vars

\* The only failure is one merge-field error, and a sibling ended with rows left.
FieldErrorWitness ==
    /\ kind = "merge" /\ ctrl = "done" /\ ~cancelled
    /\ \E w, v \in Workers :
          /\ exc[w] = "field" /\ pc[w] = "failed"
          /\ \A u \in Workers \ {w} : exc[u] = "none"
          /\ pc[v] = "shutdown" /\ idx[v] < Len(Chunk(v))

\* C11: when a template resolved for the data (the fixed one, or one of a row)
\* cannot be opened at resolution, merge() starts no worker, so that none begins
\* an output file, and ends with the outcome 'error'.
UnopenableTemplateStartsNothing ==
    (kind = "merge" /\ \E k \in 1..Len(df) : df[k].pages < 0) =>
        /\ threads = {}
        /\ \A w \in Workers : pc[w] \in {"unstarted", "starting"}
        /\ ctrl = "done" => outcomes = <<"error">>

\* C12: the collector loop ends only in a state where no worker is alive and
\* the queue is empty, in such a state it does nothing but end, and, every
\* worker running to the end of its run(), it ends eventually.
CollectorExitsExactlyWhenDrained ==
    /\ [][(ctrl = "collect" /\ ctrl' # "collect")
            => (~AnyAlive /\ message_queue = <<>>)]_vars
    /\ [][(ctrl = "collect" /\ ~AnyAlive /\ message_queue = <<>>)
            => ctrl' = "done"]_vars
    /\ (ctrl = "collect") ~> (ctrl = "done")

\* A loop that ended after it processed the events of two workers.
CollectorExitsWitness ==
    /\ ctrl = "done" /\ Len(outcomes) = 1
    /\ Cardinality(threads) >= 2
    /\ \A w \in threads : ~IsAlive(w) /\ delivered[w] # <<>>
    /\ message_queue = <<>>

\* The messages thread w has put so far, in the order of the puts of its
\* run(): one PROGRESS_UPDATE per completed row, in row order, then the
\* message it ends with.
Emitted(w) ==
    IF kind = "merge"
    THEN [k \in 1..idx[w] |-> ProgressUpdate(w, Chunk(w)[k].pages)]
         \o (CASE pc[w] = "shutdown" -> <<ShuttingDown(w)>>
               [] pc[w] = "done" -> <<WroteFile(w)>>
               [] pc[w] \in {"rethrow", "failed"} -> <<ProgressError(w)>>
               [] OTHER -> <<>>)
    ELSE IF pc[w] = "done" THEN <<ProgressUpdate(w, 1)>> ELSE <<>>

\* C13: for every worker, what the collector has processed of it, followed by
\* what of it is still queued, is what it emitted, in emission order (a put of
\* the worker is one more message emitted and one more message queued); so its
\* 'Wrote file' is processed after the PROGRESS_UPDATE of each of its rows.
EventsInEmissionOrder ==
    /\ [](\A w \in Workers : delivered[w] \o QueuedFrom(w) = Emitted(w))
    /\ [](\A w \in Workers :
             (kind = "merge" /\ \E k \in 1..Len(delivered[w]) :
                                  delivered[w][k] = WroteFile(w))
             => /\ Len(delivered[w]) = Len(Chunk(w)) + 1
                /\ \A k \in 1..Len(Chunk(w)) :
                      delivered[w][k] = ProgressUpdate(w, Chunk(w)[k].pages))
    /\ [][\A w \in Workers :
            Emitted(w)' # Emitted(w)
            => /\ Len(Emitted(w)') = Len(Emitted(w)) + 1
               /\ SubSeq(Emitted(w)', 1, Len(Emitted(w))) = Emitted(w)
               /\ Len(message_queue') = Len(message_queue) + 1
               /\ \A v \in Workers \ {w} : Emitted(v)' = Emitted(v)]_vars

\* Two workers of a finished run, each with a PROGRESS_UPDATE and then its
\* 'Wrote file' processed.
EventsInEmissionOrderWitness ==
    /\ kind = "merge" /\ ctrl = "done"
    /\ \E w, v \in Workers :
          /\ w # v
          /\ \A u \in {w, v} :
                /\ Len(delivered[u]) >= 2
                /\ delivered[u][1].type = "PROGRESS_UPDATE"
                /\ delivered[u][Len(delivered[u])] = WroteFile(u)

\* C14: at every moment of a run the number of worker threads alive, composing
\* documents, is at most the size of the pool, the CPU count.
WorkersWithinPool ==
    Cardinality({w \in threads : IsAlive(w)}) <= CpuCount

RECURSIVE SumUpdates(_)
SumUpdates(q) ==
    IF q = <<>> THEN 0
    ELSE (IF q[1].type = "PROGRESS_UPDATE" THEN q[1].body ELSE 0) + SumUpdates(Tail(q))

\* The sum of the increments the publishers of S have published.
RECURSIVE PublishedBy(_)
PublishedBy(S) ==
    IF S = {} THEN 0
    ELSE LET s == CHOOSE x \in S : TRUE
         IN  SumUpdates(Published(s)) + PublishedBy(S \ {s})

\* The sum of the increments published so far: those taken off the queue and
\* those queued.
PublishedSum == PublishedBy(Senders)

\* C15: a merge worker completes a row, all its pages composed, in the very
\* step in which it publishes one PROGRESS_UPDATE, whose value is the page
\* count resolved for that row, and it publishes no other PROGRESS_UPDATE; the
\* page counts being >= 1, the increments published never sum to more than the
\* sum of the page counts of all rows, and they sum to it, the progress total,
\* when the run is over and every worker has finished its chunk; the bar has
\* then advanced to the total unless an interrupt was caught.
ProgressPerCompletedRow ==
    /\ [][\A w \in Workers :
            (/\ kind = "merge"
             /\ \/ idx'[w] # idx[w]
                \/ /\ Len(message_queue') > Len(message_queue)
                   /\ message_queue'[Len(message_queue')].type = "PROGRESS_UPDATE"
                   /\ message_queue'[Len(message_queue')].from = w)
            => /\ pc[w] = "row" /\ pc'[w] = "check"
               /\ idx'[w] = idx[w] + 1
               /\ Len(message_queue') = Len(message_queue) + 1
               /\ SubSeq(message_queue', 1, Len(message_queue)) = message_queue
               /\ LET m == message_queue'[Len(message_queue')]
                      r == Chunk(w)[idx'[w]]
                  IN  /\ m.type = "PROGRESS_UPDATE" /\ m.from = w
                      /\ m.body = df[r.ord].pages
                      /\ m.body >= 1 /\ m.body <= Int8Max]_vars
    /\ []((kind = "merge" /\ \A k \in 1..Len(df) : df[k].pages >= 1)
           => PublishedSum <= SumPages(df))
    /\ []((/\ kind = "merge" /\ ctrl = "done"
            /\ SumSizes(df_chunks) = Len(df)
            /\ \A w \in Workers : idx[w] = Len(Chunk(w)))
           => /\ PublishedSum = total /\ total = SumPages(df)
              /\ ~cancelled => progress = total)

\* A finished run of at least two rows, some of them of several pages, in
\* which every worker finished its chunk and the progress reached the total.
ProgressPerCompletedRowWitness ==
    /\ kind = "merge" /\ ctrl = "done"
    /\ Len(df) >= 2
    /\ \A w \in Workers : idx[w] = Len(Chunk(w))
    /\ ~cancelled
    /\ progress = total /\ total > Len(df)

-----------------------------------------------------------------------------
(* Properties of replace_merge_fields (SpecFields). *)

\* The names between the guillemets of the placeholders of t from index i on.
RECURSIVE PlaceholderNames(_, _)
PlaceholderNames(t, i) ==
    IF i > Len(t) THEN <<>>
    ELSE IF MatchEnd(t, i) = 0 THEN PlaceholderNames(t, i + 1)
    ELSE <<SubSeq(t, i + 1, MatchEnd(t, i) - 1)>>
         \o PlaceholderNames(t, MatchEnd(t, i) + 1)

\* The placeholders of t whose lower-cased name is no column of r.
Missing(t, r) ==
    {k \in 1..Len(PlaceholderNames(t, 1)) :
        Lower(PlaceholderNames(t, 1)[k]) \notin DOMAIN r}

\* C16: on a text without placeholders a second application returns what the
\* first returned; the texts «n» and «N» with the row {n: "X"} give "X"; and
\* a text with a placeholder whose lower-cased name is no column of the row
\* raises the error that names the first such column, any other text none.
FieldsSubstitution ==
    kind = "fields" =>
        /\ (PlaceholderNames(text, 1) = <<>> /\ result # <<>>) => result[1].ok
        /\ (PlaceholderNames(text, 1) = <<>> /\ Len(result) = 2)
               => result[2] = result[1]
        /\ (/\ text \in {<<"«", "n", "»">>, <<"«", "N", "»">>}
            /\ DOMAIN row = {<<"n">>} /\ row[<<"n">>] = Str(<<"X">>)
            /\ result # <<>>)
               => result[1] = Ok(<<"X">>)
        /\ result # <<>> =>
               IF Missing(text, row) = {} THEN result[1].ok
               ELSE LET first == CHOOSE k \in Missing(text, row) :
                                     \A m \in Missing(text, row) : k <= m
                    IN  result[1] = Raised(Lower(PlaceholderNames(text, 1)[first]))

\* «N» was replaced by the cell of column n, and the call repeated on the result.
FieldsSubstitutionWitness ==
    /\ kind = "fields"
    /\ text = <<"«", "N", "»">>
    /\ DOMAIN row = {<<"n">>} /\ row[<<"n">>] = Str(<<"X">>)
    /\ result = <<Ok(<<"X">>), Ok(<<"X">>)>>

\* The argument of the k-th call.
CallText(k) == IF k = 1 THEN text ELSE result[k - 1].val

\* C17: a call that returns returns a non-empty string: the single space when
\* the substituted, collapsed and trimmed text is empty, and else that text,
\* which neither begins nor ends with white space and holds no two line
\* breaks in a row.
NeverReturnsEmpty ==
    kind = "fields" =>
        \A k \in 1..Len(result) :
            result[k].ok =>
                LET t == Substituted(CallText(k), row).val
                    v == result[k].val
                IN  /\ v # <<>>
                    /\ v = IF t = <<>> THEN <<" ">> ELSE t
                    /\ v # <<" ">> =>
                          /\ v[1] \notin Whitespace /\ v[Len(v)] \notin Whitespace
                          /\ \A i \in 1..Len(v) : ~(IsCrLf(v, i) /\ IsCrLf(v, i + 2))

\* A placeholder replaced by an empty cell between white space: the single space.
NeverReturnsEmptyWitness ==
    /\ kind = "fields"
    /\ text = <<" ", "«", "n", "»">>
    /\ DOMAIN row = {<<"n">>} /\ row[<<"n">>] = Str(<<>>)
    /\ result # <<>> /\ result[1] = Ok(<<" ">>)

-----------------------------------------------------------------------------
(* Properties of the composition of an imposition (SpecSheets). *)

\* Every sheet of the output has been composed.
Composed == kind = "sheets" /\ Len(sheets) = ResultingPageCount(options)

\* The placements of source page n, as <<sheet, index in the sheet>>.
PlacementsOf(n) ==
    {<<i, k>> \in (1..Len(sheets)) \X (1..Shape(options)) :
        k <= Len(sheets[i]) /\ sheets[i][k].page = n}

BacksUseMirroredPositions ==
    kind = "sheets" =>
        \A i \in 1..Len(sheets) : \A k \in 1..Len(sheets[i]) :
            LET pos == CalculateImgPositions(options)[sheets[i][k].slot + 1]
                back == options.duplex /\ (i - 1) % 2 = 1
            IN  <<sheets[i][k].x, sheets[i][k].y>> =
                    IF back THEN <<pos[3], pos[4]>> ELSE <<pos[1], pos[2]>>

-----------------------------------------------------------------------------
(* Cancellation of an imposition (Spec). *)

\* C20: an imposition worker that finds the stop flag set when it is about to
\* open its input, or about to compose its sheets, does not go on to compose
\* them and run its document to completion.
ImposeWorkerPollsStopFlag ==
    [][\A w \in Workers :
        (kind = "impose" /\ stop_event /\ pc[w] \in {"begin", "compose"})
        => pc'[w] \notin {"compose", "done"} \/ pc'[w] = pc[w]]_vars

-----------------------------------------------------------------------------
(* An empty row set (Spec). *)

\* C23: a merge of an empty row set has no chunk: the partitioner returned the
\* empty list, no worker exists or was started, and no output document was
\* begun or written.
EmptyRowSetYieldsNothing ==
    (kind = "merge" /\ df = <<>> /\ ctrl \in {"start", "collect", "done"}) =>
        /\ df_chunks = <<>>
        /\ Workers = {}
        /\ threads = {}
        /\ \A k \in 1..Len(message_queue) : message_queue[k].from = 0
        /\ \A k \in 1..Len(console) : console[k].from = 0

\* The run of an empty row set is over: it went through the partitioner, the
\* executor and the collector loop, and displayed success.
EmptyRowSetYieldsNothingWitness ==
    /\ kind = "merge" /\ df = <<>>
    /\ ctrl = "done"
    /\ outcomes = <<"success">>
    /\ total = 0

-----------------------------------------------------------------------------
(* Properties of the loader (SpecLoad). *)

\* The row numbers the 'Dropped ... empty row(s)' warning lists.
Reported ==
    IF message_queue = <<>> THEN {}
    ELSE Range(message_queue[1].body.row_indices)

\* C21: without a proof, the rows the warning reports are exactly the rows
\* whose columns but the first are all empty, and exactly the rows that are
\* absent from the data _load_data returns.
DroppedRowsAreReported ==
    (kind = "load" /\ ctrl = "done" /\ ~generate_proof) =>
        \A k \in 1..Len(csv) :
            /\ NonKeyColumnsNull(csv[k]) <=> k \in Reported
            /\ k \in Reported <=> csv[k] \notin Range(df)

\* C29: a proof keeps at most ProofSample rows of every value of the variable
\* column, in the order of that column, or ProofSample rows of the whole set
\* without a variable column; rows of one value, or all rows without a
\* variable column, stay in the order of the data file.
ProofKeepsOrder ==
    (kind = "load" /\ ctrl = "done" /\ generate_proof) =>
        IF variable_column
        THEN /\ \A v \in CellValues : Cardinality(Group(df, v)) <= ProofSample
             /\ \A i, j \in 1..Len(df) :
                   i < j => /\ Rank(VariableValue(df[i])) <= Rank(VariableValue(df[j]))
                            /\ VariableValue(df[i]) = VariableValue(df[j])
                                   => df[i].ord < df[j].ord
        ELSE /\ Len(df) <= ProofSample
             /\ \A i, j \in 1..Len(df) : i < j => df[i].ord < df[j].ord

-----------------------------------------------------------------------------
(* Properties of the template resolution (SpecResolve). *)

\* The number of open_document calls for path.
OpenCalls(path) ==
    Cardinality({i \in 1..Len(open_calls) : open_calls[i] = path})

\* C25: when the resolution is over, open_document was called exactly once
\* for every path a row references, and every row has the page count of its
\* path.
EachTemplateOpenedOnce ==
    (kind = "resolve" /\ ctrl \in {"done", "raised"}) =>
        \A k \in 1..Len(df) :
            /\ OpenCalls(df[k].path) = 1
            /\ df[k].pages = PageCount(df[k].path)

-----------------------------------------------------------------------------
(* What the merge workers own (Spec). *)

\* The templates of the rows the worker w has completed, and the template of
\* the row at which it raised, if it did.
CompletedTemplates(w) == {TemplatePath(Chunk(w)[k]) : k \in 1..idx[w]}

RaisedAtTemplate(w) ==
    IF pc[w] \in {"except", "rethrow", "failed"} /\ idx[w] < Len(Chunk(w))
    THEN {TemplatePath(Chunk(w)[idx[w] + 1])}
    ELSE {}

\* C22: the started worker of chunk N has the output path <stem>_N.pdf, no
\* two started workers have the same output path, and the cache of a worker
\* holds what that worker's own operations left in it: nothing once it has
\* cleared it, and otherwise the templates of its own completed rows, with at
\* most the template of the row it raised at.
WorkersOwnTheirResources ==
    kind = "merge" =>
        /\ \A w \in threads : resources[w].output_path = <<"output", w>>
        /\ \A v, w \in threads :
              v # w => resources[v].output_path # resources[w].output_path
        /\ \A w \in Workers :
              IF released[w]
              THEN resources[w].documents = {}
              ELSE /\ CompletedTemplates(w) \subseteq resources[w].documents
                   /\ resources[w].documents \subseteq
                          CompletedTemplates(w) \cup RaisedAtTemplate(w)

\* Two workers that have each merged a row, of different templates, and
\* neither has cleared its cache.
WorkersOwnTheirResourcesWitness ==
    /\ kind = "merge"
    /\ \E v, w \in threads :
          /\ v # w
          /\ idx[v] >= 1 /\ idx[w] >= 1
          /\ ~released[v] /\ ~released[w]
          /\ resources[v].documents # {}
          /\ resources[w].documents # {}
          /\ resources[v].documents # resources[w].documents

-----------------------------------------------------------------------------
(* The progress of an imposition (Spec). *)

\* C28: an imposition worker has published nothing until its run() is over,
\* all sheets of its output composed, and then exactly one PROGRESS_UPDATE of
\* value 1; when the run is over and every worker has finished, the advances
\* published sum to the progress total, the number of input files, and the
\* bar has advanced to it unless an interrupt was caught.
ImposeOneUpdatePerDocument ==
    kind = "impose" =>
        /\ \A w \in Workers :
              /\ Published(w) = IF pc[w] = "done" THEN <<ProgressUpdate(w, 1)>> ELSE <<>>
              /\ pc[w] = "done" => sheet_no[w] = resulting_page_count[w]
        /\ (ctrl = "done" /\ \A w \in Workers : pc[w] = "done") =>
              /\ total = input_files
              /\ PublishedSum = total
              /\ ~cancelled => progress = total

\* A run of two input files, one of them of several sheets, is over and every
\* worker has finished.
ImposeOneUpdatePerDocumentWitness ==
    /\ kind = "impose" /\ ctrl = "done"
    /\ input_files >= 2
    /\ \A w \in Workers : pc[w] = "done"
    /\ \E w \in Workers : sheet_no[w] >= 2
    /\ ~cancelled
    /\ progress = input_files

-----------------------------------------------------------------------------
(* Properties of the composition of a row's blocks (SpecBlocks). *)

\* The placement warnings and the errors the thread w has published.
PlacementWarnings(w) ==
    SelectSeq(Published(w), LAMBDA m : m.type = "PROGRESS_WARNING"
                                       /\ m # ShuttingDown(w))

Errors(w) == SelectSeq(Published(w), LAMBDA m : m.type = "PROGRESS_ERROR")

\* The blocks w left unfilled for want of their resource.
Unfilled(w) == SelectSeq(composed[w], LAMBDA e : e.how = "unfilled")

\* C26: a worker has published one warning for each block whose resource it
\* could not resolve, in their order; after such a block, left unfilled, it
\* has not raised; the stop flag is not set unless a worker has raised; and a
\* worker that is done has completed every row of its chunk, so that, if none
\* raised, the outcome of the run is success.
UnresolvedResourceOnlyWarns ==
    kind = "blocks" =>
        /\ \A w \in Workers :
              /\ PlacementWarnings(w) =
                     [k \in 1..Len(Unfilled(w)) |->
                         PlacementWarning(w, blocks[Unfilled(w)[k].block])]
              /\ (/\ composed[w] # <<>>
                  /\ composed[w][Len(composed[w])].how = "unfilled") => exc[w] = "none"
              /\ pc[w] = "done" => idx[w] = Len(Chunk(w))
        /\ (\A w \in Workers : exc[w] = "none") =>
              /\ ~stop_event
              /\ FinalOutcome = "success"

\* A worker that is done: it left an image block unfilled, filled the block
\* after it, completed every row and published the update of each, and the
\* outcome is success.
UnresolvedResourceOnlyWarnsWitness ==
    /\ kind = "blocks"
    /\ FinalOutcome = "success"
    /\ \E w \in Workers :
          /\ pc[w] = "done"
          /\ idx[w] >= 2
          /\ \E k \in 1..(Len(composed[w]) - 1) :
                /\ composed[w][k].how = "unfilled"
                /\ blocks[composed[w][k].block] = "image"
                /\ composed[w][k + 1].how = "filled"
                /\ composed[w][k + 1].row = composed[w][k].row
          /\ SumUpdates(Published(w)) = SumPages(Chunk(w))

\* C27: a block whose fill call failed, or whose type is unsupported, is the
\* last block the worker went through, in a row it has not completed; the
\* worker is on its way out through the handler of run(), has published no
\* PROGRESS_ERROR before the handler's put and exactly one, with the error
\* text, from then on, and the stop flag is set when the fill call failed and,
\* in either case, when the thread has ended.
EngineFailureIsFatal ==
    kind = "blocks" =>
        \A w \in Workers : \A k \in 1..Len(composed[w]) :
            composed[w][k].how \in {"failed", "unsupported"} =>
                /\ k = Len(composed[w])
                /\ idx[w] = composed[w][k].row - 1
                /\ pc[w] \in {"except", "rethrow", "failed"}
                /\ exc[w] = IF composed[w][k].how = "failed" THEN "engine"
                            ELSE "unsupported"
                /\ Errors(w) = IF pc[w] = "except" THEN <<>> ELSE <<ProgressError(w)>>
                /\ composed[w][k].how = "failed" => stop_event
                /\ pc[w] = "failed" => stop_event

\* A worker that has ended after the fill of an image block, whose resource
\* was resolved, failed behind a filled block, in its second row.
EngineFailureIsFatalWitness ==
    /\ kind = "blocks"
    /\ FinalOutcome = "error"
    /\ \E w \in Workers :
          /\ pc[w] = "failed"
          /\ idx[w] = 1
          /\ Len(composed[w]) >= 2
          /\ composed[w][Len(composed[w])].how = "failed"
          /\ blocks[composed[w][Len(composed[w])].block] = "image"
          /\ composed[w][Len(composed[w]) - 1].how = "filled"
          /\ composed[w][Len(composed[w]) - 1].row = 2
          /\ Errors(w) = <<ProgressError(w)>>
-----------------------------------------------------------------------------
(* Properties of the end of a run (Spec). *)

\* C31: the stop flag, once set, stays set; in a step taken with the flag set
\* no merge worker passes its pre-row check, a worker completes a row only
\* from behind a check it had passed, one row, and is back at the check; a
\* worker finishes only with no row left; and the worker whose 'Wrote file'
\* is published has processed every row of its chunk.
StopLetsOneRowComplete ==
    /\ [][stop_event => stop_event']_vars
    /\ [][(kind = "merge" /\ stop_event) =>
            \A w \in Workers :
                /\ pc[w] # "row" => pc'[w] # "row"
                /\ idx'[w] # idx[w] => /\ pc[w] = "row"
                                       /\ idx'[w] = idx[w] + 1
                                       /\ pc'[w] = "check"
                /\ (pc[w] # "done" /\ pc'[w] = "done") => idx[w] = Len(Chunk(w))]_vars
    /\ [](kind = "merge" =>
            \A w \in Workers :
                (\E k \in 1..Len(Published(w)) : Published(w)[k] = WroteFile(w))
                => idx[w] = Len(Chunk(w)))

\* Two workers of one row each: the first raised out of its row, the stop
\* flag set before its PROGRESS_ERROR; behind that event in the queue are the
\* PROGRESS_UPDATE of the row the second completed and, no row being left,
\* its 'Wrote file'.
StopLetsOneRowCompleteWitness ==
    /\ kind = "merge" /\ Len(df_chunks) = 2
    /\ stop_event /\ ~cancelled
    /\ exc[1] = "engine" /\ pc[1] = "failed" /\ idx[1] = 0
    /\ pc[2] = "done" /\ idx[2] = 1
    /\ message_queue = <<ProgressError(1), ProgressUpdate(2, Chunk(2)[1].pages),
                         WroteFile(2)>>

\* C32: a step that sets the stop flag without an interrupt is the step of a
\* worker that raises into the handler of run() or leaves it; a worker that
\* raised is in the handler or past it, and past its first statement it has
\* published its PROGRESS_ERROR; and when a merge run whose workers were
\* started has displayed 'error', the view has logged the PROGRESS_ERROR of
\* some worker.
ErrorOutcomeFollowsLoggedError ==
    /\ [][(kind = "merge" /\ ~stop_event /\ stop_event' /\ ~cancelled') =>
            \E w \in Workers :
                /\ pc'[w] # pc[w]
                /\ pc'[w] \in {"except", "failed"}
                /\ exc'[w] \notin {"none", "ComputeError"}]_vars
    /\ [](kind = "merge" =>
            \A w \in Workers :
                exc[w] \notin {"none", "ComputeError"} =>
                    /\ pc[w] \in {"except", "rethrow", "failed"}
                    /\ pc[w] # "except" => HasPublished(w, ProgressError(w)))
    /\ []((kind = "merge" /\ ctrl = "done" /\ threads # {} /\ outcomes = <<"error">>)
           => \E w \in Workers : Logged(ProgressError(w)))

\* A run of two workers has displayed 'error': one raised for an unsupported
\* block type, its PROGRESS_ERROR was logged, and then its sibling's
\* 'Shutting down'.
ErrorOutcomeFollowsLoggedErrorWitness ==
    /\ kind = "merge" /\ ctrl = "done" /\ outcomes = <<"error">>
    /\ Len(df_chunks) = 2
    /\ \E w, v \in Workers :
          /\ exc[w] = "unsupported" /\ pc[w] = "failed"
          /\ pc[v] = "shutdown"
          /\ console = <<ProgressError(w), ShuttingDown(v)>>

\* What the view has logged of the publisher s, in order.
LoggedFrom(s) == SelectSeq(console, LAMBDA m : m.from = s)

\* The messages among q that process_message logs.
Loggable(q) == SelectSeq(q, LAMBDA m : m.type # "PROGRESS_UPDATE")

\* C33: when the outcome is displayed no event is left in the queue, and the
\* view has processed every event put, once: it has logged the messages,
\* warnings and errors of every publisher, each once and in order, and has
\* advanced the bar by the sum of the increments published.
NoEventIsLost ==
    ctrl = "done" =>
        /\ message_queue = <<>>
        /\ \A s \in Senders : LoggedFrom(s) = Loggable(Published(s))
        /\ progress = PublishedSum
====
